---- MODULE Spec2Model ----
(***************************************************************************)
(* Name-change moderation bot (src/src/main.py NameChangeBot over the      *)
(* sqlite store of src/src/database.py).                                   *)
(*                                                                         *)
(* A Python str is a sequence of one-character strings; Python None is the *)
(* value None below, which is no str.  The store's tables are sets of rows *)
(* (records); name_changes and scam_names are sequences in rowid order.    *)
(* Every handler is one action: the answers of the chat-protocol client    *)
(* (permission lookups, ban and kick calls) are inputs chosen with \E.     *)
(***************************************************************************)
EXTENDS Integers, Sequences, FiniteSets, TLC

\* ------------------------------------------------------------------ bounds
MaxSignals == 4      \* signals and admin commands handled in one run
MaxHistory == 3      \* rows of name_changes a run may hold
\* Database calls made in one run of the store by itself
MaxCalls == 6

\* ----------------------------------------------------------- Python values
None == <<"None">>
EmptyStr == <<>>
Space == <<" ">>
Unknown == <<"U", "n", "k", "n", "o", "w", "n">>

\* x or d
Or(x, d) == IF x = None \/ x = EmptyStr THEN d ELSE x

\* str(x) inside an f-string
Fmt(x) == IF x = None THEN <<"N", "o", "n", "e">> ELSE x

\* str.lower() on one character
LowerChar(c) ==
    CASE c = "A" -> "a"
      [] c = "S" -> "s"
      [] c = "U" -> "u"
      [] c = "N" -> "n"
      [] OTHER -> c

\* str.lower()
Lower(s) == [i \in 1..Len(s) |-> LowerChar(s[i])]

RECURSIVE LStrip(_)
LStrip(s) == IF s # <<>> /\ Head(s) = " " THEN LStrip(Tail(s)) ELSE s

RECURSIVE RStrip(_)
RStrip(s) ==
    IF s # <<>> /\ s[Len(s)] = " " THEN RStrip(SubSeq(s, 1, Len(s) - 1)) ELSE s

\* str.strip()
Strip(s) == RStrip(LStrip(s))

\* mutant of In: == where the code has `in`
InAsEquality(a, b) == a = b

\* a in b, for strs
In(a, b) ==
    \E i \in 0..(Len(b) - Len(a)) : SubSeq(b, i + 1, i + Len(a)) = a

\* ------------------------------------------------------------------ inputs
UserIds == {1}
RawGroupIds == {-1, 2}
Titles == {"g", "h"}

\* telethon User objects as the handlers read them
User(first_name, last_name, username) ==
    [first_name |-> first_name, last_name |-> last_name, username |-> username]

\* the profiles a user shows: with and without last name and username, a
\* first name that holds a space, and a deleted account's missing first name
Identities ==
    {User(<<"A">>, None, None),
     User(<<"A">>, None, <<"x">>),
     User(<<"A">>, <<"S">>, <<"x">>),
     User(<<"A", " ", "S">>, None, <<"x">>),
     User(None, None, <<"x">>)}

\* names the admin may put on the blocklist
ScamPool == {<<"s">>, <<"U", "N">>}

\* mutant of Abs: the id is used as passed
AbsAsIdentity(n) == n

\* abs()
Abs(n) == IF n < 0 THEN -n ELSE n

\* ------------------------------------------------------------------- state
VARIABLES
    users,          \* table users: rows [user_id, first_name, last_name, username, is_active]
    groups,         \* table groups: rows [group_id, group_name, is_active]
    user_groups,    \* table user_groups: rows [user_id, group_id, is_active]
    name_changes,   \* table name_changes, in id order
    scam_names,     \* table scam_names, in id order
    last,           \* what the handler of the latest signal computed and issued
    nsig            \* signals and admin commands handled so far

vars == <<users, groups, user_groups, name_changes, scam_names, last, nsig>>

\* the rows of S as a sequence in ascending key order (a SELECT over an
\* INTEGER PRIMARY KEY table walks it in rowid order)
RECURSIVE InKeyOrder(_)
InKeyOrder(S) ==
    IF S = {} THEN <<>>
    ELSE LET m == CHOOSE r \in S : \A q \in S : r.group_id <= q.group_id
         IN <<m>> \o InKeyOrder(S \ {m})

\* ------------------------------------------------------- Database methods
\* Database.get_user: the row as a set, {} for None
get_user(us, user_id) == {r \in us : r.user_id = user_id}

\* mutant of register_user: INSERT OR IGNORE keeps the row of that key
register_user_or_ignore(us, user_id, first_name, last_name, username) ==
    IF \E r \in us : r.user_id = user_id THEN us
    ELSE us \cup {[user_id |-> user_id, first_name |-> first_name,
                   last_name |-> last_name, username |-> username, is_active |-> TRUE]}

\* Database.register_user: INSERT OR REPLACE drops the row of that key and
\* inserts one whose is_active takes the column default
register_user(us, user_id, first_name, last_name, username) ==
    {r \in us : r.user_id # user_id} \cup
    {[user_id |-> user_id, first_name |-> first_name, last_name |-> last_name,
      username |-> username, is_active |-> TRUE]}

\* Database.get_user_active_groups: groups JOIN user_groups ON equal group_id
get_user_active_groups(gs, ugs, user_id) ==
    InKeyOrder({g \in gs : g.is_active /\
                  \E m \in ugs : m.user_id = user_id /\ m.group_id = g.group_id
                                 /\ m.is_active})

\* mutant of get_scam_names: the list as it was loaded when the bot started
get_scam_names_at_start(sn) == <<>>

\* Database.get_scam_names
get_scam_names(sn) == sn

\* mutant of record_name_change: the row replaces the earlier rows of the
\* same user and group
record_latest_name_change(nc, user_id, group_id, old_first_name, old_last_name, old_username, new_first_name, new_last_name, new_username) ==
    Append(SelectSeq(nc, LAMBDA r : ~(r.user_id = user_id /\ r.group_id = group_id)),
           [user_id |-> user_id, group_id |-> group_id,
            old_first_name |-> old_first_name, old_last_name |-> old_last_name,
            old_username |-> old_username, new_first_name |-> new_first_name,
            new_last_name |-> new_last_name, new_username |-> new_username])

\* Database.record_name_change
record_name_change(nc, user_id, group_id, old_first_name, old_last_name, old_username, new_first_name, new_last_name, new_username) ==
    Append(nc, [user_id |-> user_id, group_id |-> group_id,
                old_first_name |-> old_first_name, old_last_name |-> old_last_name,
                old_username |-> old_username, new_first_name |-> new_first_name,
                new_last_name |-> new_last_name, new_username |-> new_username])

\* mutant of register_group: the group is looked up by id only
register_group_by_id(gs, group_id, group_name) ==
    LET normalized_id == Abs(group_id)
        byId == {g \in gs : Abs(g.group_id) = normalized_id}
    IN  IF byId # {}
        THEN [ok |-> TRUE,
              groups |-> {IF g \in byId THEN [g EXCEPT !.group_name = group_name] ELSE g : g \in gs}]
        ELSE [ok |-> TRUE,
              groups |-> gs \cup {[group_id |-> normalized_id,
                                   group_name |-> group_name, is_active |-> TRUE]}]

\* Database.register_group: [ok, groups]
register_group(gs, group_id, group_name) ==
    LET normalized_id == Abs(group_id)
        byName == {g \in gs : g.group_name = group_name /\ g.is_active}
        byId == {g \in gs : Abs(g.group_id) = normalized_id}
    IN  IF byName # {}
        THEN LET existing == CHOOSE g \in byName : TRUE
                 hit == {g \in gs : g.group_name = group_name}
                 moved == {[g EXCEPT !.group_id = normalized_id] : g \in hit}
                 kept == gs \ hit
             IN  IF Abs(existing.group_id) # normalized_id
                 THEN IF Cardinality(moved) = Cardinality(hit)
                         /\ \A a \in moved \cup kept, b \in moved :
                               a # b => a.group_id # b.group_id
                      THEN [ok |-> TRUE, groups |-> kept \cup moved]
                      ELSE [ok |-> FALSE, groups |-> gs]   \* PRIMARY KEY conflict, rolled back
                 ELSE [ok |-> TRUE, groups |-> gs]
        ELSE IF byId # {}
             THEN [ok |-> TRUE,
                   groups |-> {IF g \in byId /\ (CHOOSE e \in byId : TRUE).group_name # group_name
                               THEN [g EXCEPT !.group_name = group_name] ELSE g : g \in gs}]
             ELSE [ok |-> TRUE,
                   groups |-> gs \cup {[group_id |-> normalized_id,
                                        group_name |-> group_name, is_active |-> TRUE]}]

\* mutant of add_user_to_group: a row that is inactive is not reactivated, a
\* fresh row is inserted
add_user_to_group_insert(us, ugs, user_id, group_id) ==
    LET normalized_id == Abs(group_id)
        us1 == {IF r.user_id = user_id THEN [r EXCEPT !.is_active = TRUE] ELSE r : r \in us}
        ugs1 == ugs \cup {[user_id |-> user_id, group_id |-> normalized_id,
                           is_active |-> TRUE]}
        count == Cardinality({m \in ugs1 : m.user_id = user_id
                                /\ Abs(m.group_id) = normalized_id /\ m.is_active})
    IN  [ok |-> (count = 1), users |-> us1, user_groups |-> ugs1]

\* Database.add_user_to_group: [ok, users, user_groups]
add_user_to_group(us, ugs, user_id, group_id) ==
    LET normalized_id == Abs(group_id)
        us1 == {IF r.user_id = user_id THEN [r EXCEPT !.is_active = TRUE] ELSE r : r \in us}
        hit == {m \in ugs : m.user_id = user_id /\ Abs(m.group_id) = normalized_id}
        ugs1 == IF hit # {}
                THEN IF ~(CHOOSE m \in hit : TRUE).is_active
                     THEN {IF m \in hit THEN [m EXCEPT !.is_active = TRUE] ELSE m : m \in ugs}
                     ELSE ugs
                ELSE ugs \cup {[user_id |-> user_id, group_id |-> normalized_id,
                                is_active |-> TRUE]}
        count == Cardinality({m \in ugs1 : m.user_id = user_id
                                /\ Abs(m.group_id) = normalized_id /\ m.is_active})
    IN  [ok |-> (count = 1), users |-> us1, user_groups |-> ugs1]

\* mutant of remove_user_from_group: a user left without an active
\* membership is deleted
remove_user_from_group_delete(us, ugs, user_id, group_id) ==
    LET ugs1 == {IF m.user_id = user_id /\ m.group_id = group_id
                 THEN [m EXCEPT !.is_active = FALSE] ELSE m : m \in ugs}
        active_groups == Cardinality({m \in ugs1 : m.user_id = user_id /\ m.is_active})
        us1 == IF active_groups = 0
               THEN {r \in us : r.user_id # user_id}
               ELSE us
    IN  [ok |-> TRUE, users |-> us1, user_groups |-> ugs1]

\* Database.remove_user_from_group: [ok, users, user_groups]; the UPDATE
\* matches group_id as passed
remove_user_from_group(us, ugs, user_id, group_id) ==
    LET ugs1 == {IF m.user_id = user_id /\ m.group_id = group_id
                 THEN [m EXCEPT !.is_active = FALSE] ELSE m : m \in ugs}
        active_groups == Cardinality({m \in ugs1 : m.user_id = user_id /\ m.is_active})
        us1 == IF active_groups = 0
               THEN {IF r.user_id = user_id THEN [r EXCEPT !.is_active = FALSE] ELSE r :
                        r \in us}
               ELSE us
    IN  [ok |-> TRUE, users |-> us1, user_groups |-> ugs1]

\* Database.get_group: the row as a set, {} for None.  The condition of
\* `dict(cursor.fetchone()) if cursor.fetchone() else None` consumes the
\* first row and the result is built from the next one; with no next row
\* dict(None) raises and the except returns None
get_group(gs, group_id) ==
    LET rows == InKeyOrder({g \in gs : Abs(g.group_id) = Abs(group_id) /\ g.is_active})
    IN  IF Len(rows) >= 2 THEN {rows[2]} ELSE {}

\* Database.get_group_user_count: users JOIN user_groups WHERE ug.group_id = ?
get_group_user_count(us, ugs, group_id) ==
    Cardinality({r.user_id : r \in {x \in us : x.is_active /\
                    \E m \in ugs : m.user_id = x.user_id /\ m.group_id = group_id
                                   /\ m.is_active}})

\* Database.add_scam_name: [ok, scam_names]; name is UNIQUE
add_scam_name(sn, name) ==
    IF \E i \in 1..Len(sn) : sn[i] = name
    THEN [ok |-> FALSE, scam_names |-> sn]
    ELSE [ok |-> TRUE, scam_names |-> Append(sn, name)]

\* Database.remove_scam_name
remove_scam_name(sn, name) == SelectSeq(sn, LAMBDA n : n # name)

\* ------------------------------------------------- chat-protocol client
\* What the client answers while one (user, group) is moderated: whether
\* get_entity and get_permissions return, the permissions returned, and
\* whether edit_permissions and kick_participant return.  An answer the
\* handler never asks for is left FALSE.  record_ok: the INSERT of the
\* group's history row goes through (record_name_change returns True).
Answer(entity_ok, perm_ok, is_admin, ban_users, edit_ok, kick_ok) ==
    [entity_ok |-> entity_ok, perm_ok |-> perm_ok, is_admin |-> is_admin,
     ban_users |-> ban_users, edit_ok |-> edit_ok, kick_ok |-> kick_ok,
     record_ok |-> TRUE]

\* sqlite raises inside record_name_change: the method logs and returns False
\* (database.py 296-298) and no row is written
WriteFails(a) == [a EXCEPT !.record_ok = FALSE]

ClientAnswers ==
    {Answer(FALSE, FALSE, FALSE, FALSE, FALSE, FALSE),   \* get_entity raises
     Answer(TRUE, FALSE, FALSE, FALSE, FALSE, FALSE),    \* get_permissions raises
     Answer(TRUE, TRUE, FALSE, FALSE, FALSE, FALSE),     \* no admin status, no ban right
     Answer(TRUE, TRUE, TRUE, FALSE, TRUE, FALSE),       \* admin: edit_permissions returns
     Answer(TRUE, TRUE, FALSE, TRUE, TRUE, FALSE),       \* ban right: edit_permissions returns
     Answer(TRUE, TRUE, TRUE, TRUE, TRUE, FALSE),
     Answer(TRUE, TRUE, TRUE, TRUE, FALSE, TRUE),        \* edit raises, kick returns
     Answer(TRUE, TRUE, TRUE, TRUE, FALSE, FALSE)}       \* both raise

\* one call a handler issued, in program order: a store write
\* ("record_name_change", "register_user", "add_user_to_group") or a client
\* call ("edit_permissions", "kick_participant", "send_message")
Call(op, group_id) == [op |-> op, group_id |-> group_id]

\* the client calls behind one moderation record
calls_of(mod) ==
    (IF mod.ban THEN <<Call("edit_permissions", mod.group_id)>> ELSE <<>>) \o
    (IF mod.kick THEN <<Call("kick_participant", mod.group_id)>> ELSE <<>>)

\* what the handler did for one (user, group): whether the permissions were
\* looked up and what they were, whether edit_permissions (ban) and
\* kick_participant (kick) were issued and whether they returned
Moderation(group_id, looked_up, is_admin, ban_users, ban, ban_ok, kick, kick_ok, outcome) ==
    [group_id |-> group_id, looked_up |-> looked_up, is_admin |-> is_admin,
     ban_users |-> ban_users, ban |-> ban, ban_ok |-> ban_ok, kick |-> kick,
     kick_ok |-> kick_ok, outcome |-> outcome]

\* mutant of ban_or_kick: no fallback to kick_participant
ban_without_fallback(group_id, a) ==
    Moderation(group_id, TRUE, a.is_admin, a.ban_users, TRUE, a.edit_ok, FALSE, FALSE,
               IF a.edit_ok THEN "Banned" ELSE "Failed")

\* mutant of ban_or_kick: kick_participant follows edit_permissions always
ban_and_kick(group_id, a) ==
    Moderation(group_id, TRUE, a.is_admin, a.ban_users, TRUE, a.edit_ok, TRUE, a.kick_ok,
               IF a.edit_ok THEN "Banned" ELSE IF a.kick_ok THEN "Kicked" ELSE "Failed")

\* try edit_permissions, except: kick_participant (main.py 181-200, 309-328)
ban_or_kick(group_id, a) ==
    IF a.edit_ok
    THEN Moderation(group_id, TRUE, a.is_admin, a.ban_users, TRUE, TRUE, FALSE, FALSE,
                    "Banned")
    ELSE Moderation(group_id, TRUE, a.is_admin, a.ban_users, TRUE, FALSE, TRUE, a.kick_ok,
                    IF a.kick_ok THEN "Kicked" ELSE "Failed")

\* mutant of check_ban_rights: `or` where the code has `and`
check_ban_rights_either(group_id, a) ==
    IF ~a.is_admin \/ ~a.ban_users
    THEN Moderation(group_id, TRUE, a.is_admin, a.ban_users, FALSE, FALSE, FALSE, FALSE,
                    "Skipped")
    ELSE ban_or_kick(group_id, a)

\* the permission check before the ban (main.py 177-179, 305-307)
check_ban_rights(group_id, a) ==
    IF ~a.is_admin /\ ~a.ban_users
    THEN Moderation(group_id, TRUE, a.is_admin, a.ban_users, FALSE, FALSE, FALSE, FALSE,
                    "Skipped")
    ELSE ban_or_kick(group_id, a)

\* the try block of the per-group loop of handle_name_change (main.py 169-203)
ban_in_group(group_id, a) ==
    IF ~a.entity_ok \/ ~a.perm_ok
    THEN Moderation(group_id, FALSE, FALSE, FALSE, FALSE, FALSE, FALSE, FALSE, "Failed")
    ELSE check_ban_rights(group_id, a)

\* ----------------------------------------------------- blocklist matcher
\* for scam_name in scam_names: if scam_name.lower() in full_name.lower()
RECURSIVE match_scam_names(_, _, _)
match_scam_names(scams, full_name, acc) ==
    IF scams = <<>> THEN acc
    ELSE LET scam_name == Head(scams)
         IN match_scam_names(Tail(scams), full_name,
                IF In(Lower(scam_name), Lower(full_name))
                THEN [is_scammer |-> TRUE, matched |-> Append(acc.matched, scam_name)]
                ELSE acc)

\* mutant of NoMatch: the flag starts out set
FlaggedFromStart == [is_scammer |-> TRUE, matched |-> <<>>]

\* is_scammer = False; matched_scam_names = [] before the loop
NoMatch == [is_scammer |-> FALSE, matched |-> <<>>]

\* ------------------------------------------------------------ diff engine
\* f"{first} {last}".strip()
full_name_of(first, second) == Strip(Fmt(first) \o Space \o Fmt(second))

\* handle_name_change's changes list (main.py 110-127)
name_changes_of(existing, user) ==
    LET old_full_name == full_name_of(existing.first_name, existing.last_name)
        new_full_name == full_name_of(Or(user.first_name, Unknown), Or(user.last_name, EmptyStr))
    IN  (IF old_full_name # new_full_name THEN <<"Full Name">> ELSE <<>>) \o
        (IF existing.username # user.username THEN <<"Username">> ELSE <<>>)

\* check_user_changes's changes list (main.py 689-696)
user_changes_of(existing, user) ==
    (IF existing.first_name # user.first_name THEN <<"First Name">> ELSE <<>>) \o
    (IF existing.last_name # user.last_name THEN <<"Last Name">> ELSE <<>>) \o
    (IF existing.username # user.username THEN <<"Username">> ELSE <<>>)

\* ------------------------------------------------------------- handlers
\* what a handler computed and issued; the fields a handler never reaches
\* keep these values
NoFx ==
    [known |-> FALSE, called |-> FALSE, changes |-> <<>>, evaluated |-> FALSE,
     full_name |-> EmptyStr, is_scammer |-> FALSE, matched |-> <<>>,
     active |-> <<>>, actions |-> <<>>, calls |-> <<>>, notice |-> <<>>,
     unwritten |-> <<>>, checked |-> <<>>, fetched |-> {}, registered |-> FALSE]

\* mutant of record_and_ban: the alert is sent inside the loop, once per group
RECURSIVE record_ban_and_alert(_, _, _, _, _, _, _, _)
record_ban_and_alert(active, i, user_id, existing_user, new, is_scammer, answers, acc) ==
    IF i > Len(active) THEN acc
    ELSE LET group_id == active[i].group_id
             nc1 == record_name_change(acc.name_changes, user_id, group_id,
                        existing_user.first_name, existing_user.last_name,
                        existing_user.username,
                        new.first_name, new.last_name, new.username)
             mod == ban_in_group(group_id, answers[group_id])
         IN  record_ban_and_alert(active, i + 1, user_id, existing_user, new, is_scammer,
                answers,
                IF is_scammer
                THEN [name_changes |-> nc1,
                      actions |-> Append(acc.actions, mod),
                      calls |-> acc.calls \o <<Call("record_name_change", group_id)>>
                                  \o calls_of(mod) \o <<Call("send_message", 0)>>]
                ELSE [acc EXCEPT !.name_changes = nc1,
                                 !.calls = Append(@, Call("record_name_change", group_id))])

\* mutant of record_and_ban: no try around the ban, a failed ban leaves the loop
RECURSIVE record_until_ban_fails(_, _, _, _, _, _, _, _)
record_until_ban_fails(active, i, user_id, existing_user, new, is_scammer, answers, acc) ==
    IF i > Len(active) THEN acc
    ELSE LET group_id == active[i].group_id
             nc1 == record_name_change(acc.name_changes, user_id, group_id,
                        existing_user.first_name, existing_user.last_name,
                        existing_user.username,
                        new.first_name, new.last_name, new.username)
             mod == ban_in_group(group_id, answers[group_id])
             acc1 == IF is_scammer
                     THEN [name_changes |-> nc1,
                           actions |-> Append(acc.actions, mod),
                           calls |-> acc.calls \o <<Call("record_name_change", group_id)>>
                                       \o calls_of(mod)]
                     ELSE [acc EXCEPT !.name_changes = nc1,
                                      !.calls = Append(@, Call("record_name_change", group_id))]
         IN  IF is_scammer /\ mod.outcome = "Failed" THEN acc1
             ELSE record_until_ban_fails(active, i + 1, user_id, existing_user, new,
                      is_scammer, answers, acc1)

\* mutant of record_and_ban: the group is moderated first and its row
\* written afterwards
RECURSIVE ban_then_record(_, _, _, _, _, _, _, _)
ban_then_record(active, i, user_id, existing_user, new, is_scammer, answers, acc) ==
    IF i > Len(active) THEN acc
    ELSE LET group_id == active[i].group_id
             nc1 == record_name_change(acc.name_changes, user_id, group_id,
                        existing_user.first_name, existing_user.last_name,
                        existing_user.username,
                        new.first_name, new.last_name, new.username)
             mod == ban_in_group(group_id, answers[group_id])
         IN  ban_then_record(active, i + 1, user_id, existing_user, new, is_scammer, answers,
                IF is_scammer
                THEN [name_changes |-> nc1,
                      actions |-> Append(acc.actions, mod),
                      calls |-> acc.calls \o calls_of(mod)
                                  \o <<Call("record_name_change", group_id)>>]
                ELSE [acc EXCEPT !.name_changes = nc1,
                                 !.calls = Append(@, Call("record_name_change", group_id))])

\* mutant of record_and_ban: a group whose history row could not be written
\* is not moderated
RECURSIVE record_else_skip(_, _, _, _, _, _, _, _)
record_else_skip(active, i, user_id, existing_user, new, is_scammer, answers, acc) ==
    IF i > Len(active) THEN acc
    ELSE LET group_id == active[i].group_id
             nc1 == record_name_change(acc.name_changes, user_id, group_id,
                        existing_user.first_name, existing_user.last_name,
                        existing_user.username,
                        new.first_name, new.last_name, new.username)
             mod == ban_in_group(group_id, answers[group_id])
         IN  record_else_skip(active, i + 1, user_id, existing_user, new, is_scammer, answers,
                IF ~answers[group_id].record_ok
                THEN [acc EXCEPT !.calls = Append(@, Call("record_name_change", group_id))]
                ELSE IF is_scammer
                THEN [name_changes |-> nc1,
                      actions |-> Append(acc.actions, mod),
                      calls |-> acc.calls \o <<Call("record_name_change", group_id)>>
                                  \o calls_of(mod)]
                ELSE [acc EXCEPT !.name_changes = nc1,
                                 !.calls = Append(@, Call("record_name_change", group_id))])

\* the per-group loop of handle_name_change (main.py 153-203) from group i
\* on: acc is [name_changes, actions, calls]
RECURSIVE record_and_ban(_, _, _, _, _, _, _, _)
record_and_ban(active, i, user_id, existing_user, new, is_scammer, answers, acc) ==
    IF i > Len(active) THEN acc
    ELSE LET group_id == active[i].group_id
             nc1 == IF answers[group_id].record_ok
                    THEN record_name_change(acc.name_changes, user_id, group_id,
                             existing_user.first_name, existing_user.last_name,
                             existing_user.username,
                             new.first_name, new.last_name, new.username)
                    ELSE acc.name_changes
             mod == ban_in_group(group_id, answers[group_id])
         IN  record_and_ban(active, i + 1, user_id, existing_user, new, is_scammer, answers,
                IF is_scammer
                THEN [name_changes |-> nc1,
                      actions |-> Append(acc.actions, mod),
                      calls |-> acc.calls \o <<Call("record_name_change", group_id)>>
                                  \o calls_of(mod)]
                ELSE [acc EXCEPT !.name_changes = nc1,
                                 !.calls = Append(@, Call("record_name_change", group_id))])

\* the user row handle_name_change writes for a telethon User
row_of(user) ==
    [first_name |-> Or(user.first_name, Unknown),
     last_name |-> Or(user.last_name, EmptyStr),
     username |-> Or(user.username, EmptyStr)]

\* mutant of reconcile: the matcher reads the stored name
reconcile_on_stored(us, gs, ugs, nc, sn, user_id, user, answers, existing_user, fx0) ==
    LET new == row_of(user)
        new_full_name == full_name_of(new.first_name, new.last_name)
        active == get_user_active_groups(gs, ugs, user_id)
    IN  IF active = <<>> THEN [users |-> us, name_changes |-> nc, fx |-> fx0]
        ELSE
        LET m == match_scam_names(get_scam_names(sn),
                     full_name_of(existing_user.first_name, existing_user.last_name),
                     NoMatch)
            loop == record_and_ban(active, 1, user_id, existing_user, new,
                        m.is_scammer, answers,
                        [name_changes |-> nc, actions |-> <<>>, calls |-> <<>>])
        IN  [users |-> register_user(us, user_id, new.first_name, new.last_name,
                           new.username),
             name_changes |-> loop.name_changes,
             fx |-> [fx0 EXCEPT !.evaluated = TRUE, !.full_name = new_full_name,
                        !.is_scammer = m.is_scammer, !.matched = m.matched,
                        !.active = [i \in 1..Len(active) |-> active[i].group_id],
                        !.unwritten = SelectSeq([i \in 1..Len(active) |-> active[i].group_id],
                                                LAMBDA g : ~answers[g].record_ok),
                        !.actions = loop.actions,
                        !.calls = loop.calls \o <<Call("register_user", 0)>> \o
                            (IF m.is_scammer THEN <<Call("send_message", 0)>> ELSE <<>>)]]

\* the body of `if changes:` in handle_name_change (main.py 129-228)
reconcile(us, gs, ugs, nc, sn, user_id, user, answers, existing_user, fx0) ==
    LET new == row_of(user)
        new_full_name == full_name_of(new.first_name, new.last_name)
        active == get_user_active_groups(gs, ugs, user_id)
    IN  IF active = <<>> THEN [users |-> us, name_changes |-> nc, fx |-> fx0]
        ELSE
        LET m == match_scam_names(get_scam_names(sn), new_full_name, NoMatch)
            loop == record_and_ban(active, 1, user_id, existing_user, new,
                        m.is_scammer, answers,
                        [name_changes |-> nc, actions |-> <<>>, calls |-> <<>>])
        IN  [users |-> register_user(us, user_id, new.first_name, new.last_name,
                           new.username),
             name_changes |-> loop.name_changes,
             fx |-> [fx0 EXCEPT !.evaluated = TRUE, !.full_name = new_full_name,
                        !.is_scammer = m.is_scammer, !.matched = m.matched,
                        !.active = [i \in 1..Len(active) |-> active[i].group_id],
                        !.unwritten = SelectSeq([i \in 1..Len(active) |-> active[i].group_id],
                                                LAMBDA g : ~answers[g].record_ok),
                        !.actions = loop.actions,
                        !.calls = loop.calls \o <<Call("register_user", 0)>> \o
                            (IF m.is_scammer THEN <<Call("send_message", 0)>> ELSE <<>>)]]

\* mutant of handle_name_change: the body of `if changes:` runs unguarded
handle_name_change_unguarded(us, gs, ugs, nc, sn, user_id, user, answers) ==
    LET found == get_user(us, user_id)
        new == row_of(user)
    IN  IF found = {}
        THEN [users |-> register_user(us, user_id, new.first_name, new.last_name,
                            new.username),
              name_changes |-> nc,
              fx |-> [NoFx EXCEPT !.called = TRUE, !.calls = <<Call("register_user", 0)>>]]
        ELSE
        LET existing_user == CHOOSE r \in found : TRUE
            changes == name_changes_of(existing_user, user)
            fx0 == [NoFx EXCEPT !.called = TRUE, !.known = TRUE, !.changes = changes]
        IN  reconcile(us, gs, ugs, nc, sn, user_id, user, answers, existing_user, fx0)

\* NameChangeBot.handle_name_change for a telethon User (main.py 76-233):
\* [users, name_changes, fx].  answers[g] is what the client answers while
\* the user is moderated in group g.
handle_name_change(us, gs, ugs, nc, sn, user_id, user, answers) ==
    LET found == get_user(us, user_id)
        new == row_of(user)
    IN  IF found = {}
        THEN [users |-> register_user(us, user_id, new.first_name, new.last_name,
                            new.username),
              name_changes |-> nc,
              fx |-> [NoFx EXCEPT !.called = TRUE, !.calls = <<Call("register_user", 0)>>]]
        ELSE
        LET existing_user == CHOOSE r \in found : TRUE
            changes == name_changes_of(existing_user, user)
            fx0 == [NoFx EXCEPT !.called = TRUE, !.known = TRUE, !.changes = changes]
        IN  IF changes # <<>>
            THEN reconcile(us, gs, ugs, nc, sn, user_id, user, answers, existing_user, fx0)
            ELSE [users |-> us, name_changes |-> nc, fx |-> fx0]

\* NameChangeBot.check_user_changes (main.py 665-702) once GetFullUserRequest
\* has returned the telethon User `user`: [users, name_changes, fx]
check_user_changes(us, gs, ugs, nc, sn, user_id, user, answers) ==
    LET found == get_user(us, user_id)
    IN  IF found = {}
        THEN [users |-> register_user(us, user_id, Or(user.first_name, Unknown),
                            Or(user.last_name, EmptyStr), Or(user.username, EmptyStr)),
              name_changes |-> nc,
              fx |-> [NoFx EXCEPT !.calls = <<Call("register_user", 0)>>]]
        ELSE LET existing_user == CHOOSE r \in found : TRUE
             IN  IF user_changes_of(existing_user, user) # <<>>
                 THEN handle_name_change(us, gs, ugs, nc, sn, user_id, user, answers)
                 ELSE [users |-> us, name_changes |-> nc,
                       fx |-> [NoFx EXCEPT !.known = TRUE]]

\* the ban of a flagged joiner (main.py 300-343)
ban_on_join(group_id, a) ==
    IF ~a.perm_ok
    THEN Moderation(group_id, FALSE, FALSE, FALSE, FALSE, FALSE, FALSE, FALSE, "Failed")
    ELSE check_ban_rights(group_id, a)

\* mutant of handle_user_join: the joiner is registered before the blocklist
\* is consulted
handle_user_join_register_first(us, gs, ugs, sn, chat_id, group_name, is_user, user_id, user, a) ==
    LET group_id == Abs(chat_id)
        reg == register_group(gs, group_id, group_name)
        full_name == full_name_of(Or(user.first_name, EmptyStr), Or(user.last_name, EmptyStr))
        m == match_scam_names(get_scam_names(sn), full_name, NoMatch)
        fx0 == [NoFx EXCEPT !.called = TRUE]
        fxr == [fx0 EXCEPT !.registered = TRUE]
        fx1 == [fxr EXCEPT !.known = (get_user(us, user_id) # {}), !.evaluated = TRUE,
                           !.full_name = full_name, !.is_scammer = m.is_scammer,
                           !.matched = m.matched]
        us1 == register_user(us, user_id, Or(user.first_name, Unknown),
                   Or(user.last_name, EmptyStr), Or(user.username, EmptyStr))
        add == add_user_to_group(us1, ugs, user_id, group_id)
        mod == ban_on_join(group_id, a)
        written == <<Call("register_user", 0), Call("add_user_to_group", group_id)>>
    IN  IF ~reg.ok
        THEN [users |-> us, groups |-> gs, user_groups |-> ugs, fx |-> fx0]
        ELSE IF ~is_user
        THEN [users |-> us, groups |-> reg.groups, user_groups |-> ugs, fx |-> fxr]
        ELSE [users |-> add.users, groups |-> reg.groups, user_groups |-> add.user_groups,
              fx |-> IF m.is_scammer
                     THEN [fx1 EXCEPT !.actions = <<mod>>,
                              !.calls = written \o calls_of(mod) \o
                                  (IF mod.outcome \in {"Banned", "Kicked"}
                                   THEN <<Call("send_message", 0)>> ELSE <<>>)]
                     ELSE [fx1 EXCEPT !.calls = written]]

\* mutant of handle_user_join: the handler goes on when register_group
\* returns False
handle_user_join_unchecked(us, gs, ugs, sn, chat_id, group_name, is_user, user_id, user, a) ==
    LET group_id == Abs(chat_id)
        reg == register_group(gs, group_id, group_name)
        full_name == full_name_of(Or(user.first_name, EmptyStr), Or(user.last_name, EmptyStr))
        m == match_scam_names(get_scam_names(sn), full_name, NoMatch)
        fx0 == [NoFx EXCEPT !.called = TRUE]
        fxr == [fx0 EXCEPT !.registered = reg.ok]
        fx1 == [fxr EXCEPT !.known = (get_user(us, user_id) # {}), !.evaluated = TRUE,
                           !.full_name = full_name, !.is_scammer = m.is_scammer,
                           !.matched = m.matched]
    IN  IF ~is_user
        THEN [users |-> us, groups |-> reg.groups, user_groups |-> ugs, fx |-> fxr]
        ELSE IF m.is_scammer
        THEN LET mod == ban_on_join(group_id, a)
             IN  [users |-> us, groups |-> reg.groups, user_groups |-> ugs,
                  fx |-> [fx1 EXCEPT !.actions = <<mod>>,
                             !.calls = calls_of(mod) \o
                                 (IF mod.outcome \in {"Banned", "Kicked"}
                                  THEN <<Call("send_message", 0)>> ELSE <<>>)]]
        ELSE LET us1 == register_user(us, user_id, Or(user.first_name, Unknown),
                            Or(user.last_name, EmptyStr), Or(user.username, EmptyStr))
                 add == add_user_to_group(us1, ugs, user_id, group_id)
             IN  [users |-> add.users, groups |-> reg.groups, user_groups |-> add.user_groups,
                  fx |-> [fx1 EXCEPT !.calls = <<Call("register_user", 0),
                                                 Call("add_user_to_group", group_id)>>]]

\* NameChangeBot.handle_user_join (main.py 235-367) for a group chat with id
\* chat_id and title group_name; is_user: event.get_user() gave a User:
\* [users, groups, user_groups, fx]
handle_user_join(us, gs, ugs, sn, chat_id, group_name, is_user, user_id, user, a) ==
    LET group_id == Abs(chat_id)
        reg == register_group(gs, group_id, group_name)
        full_name == full_name_of(Or(user.first_name, EmptyStr), Or(user.last_name, EmptyStr))
        m == match_scam_names(get_scam_names(sn), full_name, NoMatch)
        fx0 == [NoFx EXCEPT !.called = TRUE]
        fxr == [fx0 EXCEPT !.registered = TRUE]
        fx1 == [fxr EXCEPT !.known = (get_user(us, user_id) # {}), !.evaluated = TRUE,
                           !.full_name = full_name, !.is_scammer = m.is_scammer,
                           !.matched = m.matched]
    IN  IF ~reg.ok
        THEN [users |-> us, groups |-> gs, user_groups |-> ugs, fx |-> fx0]
        ELSE IF ~is_user
        THEN [users |-> us, groups |-> reg.groups, user_groups |-> ugs, fx |-> fxr]
        ELSE IF m.is_scammer
        THEN LET mod == ban_on_join(group_id, a)
             IN  [users |-> us, groups |-> reg.groups, user_groups |-> ugs,
                  fx |-> [fx1 EXCEPT !.actions = <<mod>>,
                             !.calls = calls_of(mod) \o
                                 (IF mod.outcome \in {"Banned", "Kicked"}
                                  THEN <<Call("send_message", 0)>> ELSE <<>>)]]
        ELSE LET us1 == register_user(us, user_id, Or(user.first_name, Unknown),
                            Or(user.last_name, EmptyStr), Or(user.username, EmptyStr))
                 add == add_user_to_group(us1, ugs, user_id, group_id)
             IN  [users |-> add.users, groups |-> reg.groups, user_groups |-> add.user_groups,
                  fx |-> [fx1 EXCEPT !.calls = <<Call("register_user", 0),
                                                 Call("add_user_to_group", group_id)>>]]

\* mutant of handle_user_leave: the group that was left is not filtered out
handle_user_leave_unfiltered(gs, ugs, chat_id, group_name, is_user, user_id) ==
    LET remaining_groups == get_user_active_groups(gs, ugs, user_id)
    IN  IF ~is_user THEN NoFx
        ELSE [NoFx EXCEPT !.called = TRUE,
                !.notice = IF remaining_groups # <<>>
                           THEN <<"Still in groups:">> \o
                                [i \in 1..Len(remaining_groups) |->
                                    remaining_groups[i].group_name]
                           ELSE <<"Not in any other groups">>,
                !.calls = <<Call("send_message", 0)>>]

\* NameChangeBot.handle_user_leave (main.py 369-426) for a group chat with id
\* chat_id and title group_name: what it issued; it writes nothing to the store
handle_user_leave(gs, ugs, chat_id, group_name, is_user, user_id) ==
    LET group_id == Abs(chat_id)
        remaining_groups == SelectSeq(get_user_active_groups(gs, ugs, user_id),
                                      LAMBDA g : g.group_id # group_id)
    IN  IF ~is_user THEN NoFx
        ELSE [NoFx EXCEPT !.called = TRUE,
                !.notice = IF remaining_groups # <<>>
                           THEN <<"Still in groups:">> \o
                                [i \in 1..Len(remaining_groups) |->
                                    remaining_groups[i].group_name]
                           ELSE <<"Not in any other groups">>,
                !.calls = <<Call("send_message", 0)>>]

\* ------------------------------------------------------------ the machine
\* The bot handles one update at a time (sequential_updates=True, main.py 43):
\* `last` holds the update being handled and what its handler did, and is
\* Idle between two updates.
Signal(kind, user_id, user, group_id, fx) ==
    [kind |-> kind, user_id |-> user_id, user |-> user, group_id |-> group_id, fx |-> fx]

NoIdentity == User(None, None, None)

Idle == Signal("idle", 0, NoIdentity, 0, NoFx)

Init ==
    /\ users = {}
    /\ groups = {}
    /\ user_groups = {}
    /\ name_changes = <<>>
    /\ scam_names = <<>>
    /\ last = Idle
    /\ nsig = 0

\* the groups in which a handler run moderates, read off a dry run
moderated(fx) == {fx.actions[i].group_id : i \in 1..Len(fx.actions)}

AnyAnswer == CHOOSE a \in ClientAnswers : TRUE

NormalizedIds == {Abs(g) : g \in RawGroupIds}

\* answers for every group; in the groups the handler asks nothing for, any
Total(answers) ==
    [g \in NormalizedIds |-> IF g \in DOMAIN answers THEN answers[g] ELSE AnyAnswer]

Ready ==
    /\ last = Idle
    /\ nsig < MaxSignals
    /\ nsig' = nsig + 1

\* events.Raw UpdateUser (main.py 738-741)
NameChange(user_id, user) ==
    /\ Ready
    /\ \E dry \in {handle_name_change(users, groups, user_groups, name_changes, scam_names,
                      user_id, user, [g \in NormalizedIds |-> AnyAnswer])} :
       \E answers \in [moderated(dry.fx) -> ClientAnswers] :
       \E r \in {handle_name_change(users, groups, user_groups, name_changes,
                      scam_names, user_id, user, Total(answers))} :
          /\ Len(r.name_changes) <= MaxHistory
          /\ users' = r.users
          /\ name_changes' = r.name_changes
          /\ last' = Signal("name_change", user_id, user, 0, r.fx)
    /\ UNCHANGED <<groups, user_groups, scam_names>>

\* events.Raw UpdateUserName, UpdateUserStatus, UpdateChannelParticipant
\* (main.py 743-759) and one iteration of periodic_user_check (main.py 787-788)
CheckUserChanges(user_id, user) ==
    /\ Ready
    /\ \E dry \in {check_user_changes(users, groups, user_groups, name_changes, scam_names,
                      user_id, user, [g \in NormalizedIds |-> AnyAnswer])} :
       \E answers \in [moderated(dry.fx) -> ClientAnswers] :
       \E r \in {check_user_changes(users, groups, user_groups, name_changes,
                      scam_names, user_id, user, Total(answers))} :
          /\ Len(r.name_changes) <= MaxHistory
          /\ users' = r.users
          /\ name_changes' = r.name_changes
          /\ last' = Signal("check", user_id, user, 0, r.fx)
    /\ UNCHANGED <<groups, user_groups, scam_names>>

\* events.ChatAction user_joined (main.py 772-775)
UserJoin(chat_id, group_name, is_user, user_id, user) ==
    /\ Ready
    /\ \E dry \in {handle_user_join(users, groups, user_groups, scam_names, chat_id,
                      group_name, is_user, user_id, user, AnyAnswer)} :
       \E a \in IF dry.fx.actions = <<>> THEN {AnyAnswer} ELSE ClientAnswers :
       \E r \in {handle_user_join(users, groups, user_groups, scam_names, chat_id,
                      group_name, is_user, user_id, user, a)} :
          /\ users' = r.users
          /\ groups' = r.groups
          /\ user_groups' = r.user_groups
          /\ last' = Signal("join", user_id, user, Abs(chat_id), r.fx)
    /\ UNCHANGED <<name_changes, scam_names>>

\* events.ChatAction user_left (main.py 776-779)
UserLeave(chat_id, group_name, is_user, user_id) ==
    /\ Ready
    /\ last' = Signal("leave", user_id, NoIdentity, Abs(chat_id),
                      handle_user_leave(groups, user_groups, chat_id, group_name,
                                        is_user, user_id))
    /\ UNCHANGED <<users, groups, user_groups, name_changes, scam_names>>

\* /addscam with one name (main.py 547-608)
AddScam(name) ==
    /\ Ready
    /\ scam_names' = add_scam_name(scam_names, name).scam_names
    /\ last' = Signal("addscam", 0, NoIdentity, 0,
                      [NoFx EXCEPT !.notice = IF add_scam_name(scam_names, name).ok
                                              THEN <<"Added names:", name>>
                                              ELSE <<"Names already exist:", name>>])
    /\ UNCHANGED <<users, groups, user_groups, name_changes>>

\* /removescam (main.py 610-637)
RemoveScam(name) ==
    /\ Ready
    /\ scam_names' = remove_scam_name(scam_names, name)
    /\ last' = Signal("removescam", 0, NoIdentity, 0,
                      [NoFx EXCEPT !.notice = <<"Removed", name>>])
    /\ UNCHANGED <<users, groups, user_groups, name_changes>>

\* the handler has returned; the client waits for the next update
Return ==
    /\ last # Idle
    /\ last' = Idle
    /\ UNCHANGED <<users, groups, user_groups, name_changes, scam_names, nsig>>

Next ==
    \/ \E u \in UserIds, o \in Identities : NameChange(u, o)
    \/ \E u \in UserIds, o \in Identities : CheckUserChanges(u, o)
    \/ \E c \in RawGroupIds, t \in Titles, u \in UserIds, o \in Identities :
          UserJoin(c, t, TRUE, u, o)
    \/ \E c \in RawGroupIds, t \in Titles : UserJoin(c, t, FALSE, 0, NoIdentity)
    \/ \E c \in RawGroupIds, t \in Titles, u \in UserIds : UserLeave(c, t, TRUE, u)
    \/ \E c \in RawGroupIds, t \in Titles : UserLeave(c, t, FALSE, 0)
    \/ \E n \in ScamPool : AddScam(n)
    \/ \E n \in ScamPool : RemoveScam(n)
    \/ Return

Spec == Init /\ [][Next]_vars

\* ---------------------------------------------------- the store by itself
\* The Database object driven through its public methods with any arguments,
\* negative group ids included; `last` holds the latest call: its arguments,
\* the rows its first SELECT found (existing) and what it returned (ok).
StoreUserIds == {1, 2}

StoreGroupIds == {-2, -1, 1, 2}

StoreIdentities == {User(<<"A">>, None, None)}

StoreCall(op, user_id, group_id, group_name, existing, ok) ==
    [kind |-> op, user_id |-> user_id, group_id |-> group_id, group_name |-> group_name,
     existing |-> existing, ok |-> ok]

StoreReady ==
    /\ nsig < MaxCalls
    /\ nsig' = nsig + 1

\* db.register_group(group_id, group_name)
DbRegisterGroup(group_id, group_name) ==
    /\ StoreReady
    /\ \E r \in {register_group(groups, group_id, group_name)} :
          /\ groups' = r.groups
          /\ last' = StoreCall("register_group", 0, group_id, group_name,
                        {g \in groups : g.group_name = group_name /\ g.is_active}, r.ok)
    /\ UNCHANGED <<users, user_groups, name_changes, scam_names>>

\* db.register_user(user_id, first_name, last_name, username)
DbRegisterUser(user_id, user) ==
    /\ StoreReady
    /\ users' = register_user(users, user_id, row_of(user).first_name,
                    row_of(user).last_name, row_of(user).username)
    /\ last' = StoreCall("register_user", user_id, 0, "", get_user(users, user_id), TRUE)
    /\ UNCHANGED <<groups, user_groups, name_changes, scam_names>>

\* db.add_user_to_group(user_id, group_id)
DbAddUserToGroup(user_id, group_id) ==
    /\ StoreReady
    /\ \E r \in {add_user_to_group(users, user_groups, user_id, group_id)} :
          /\ users' = r.users
          /\ user_groups' = r.user_groups
          /\ last' = StoreCall("add_user_to_group", user_id, group_id, "",
                        {m \in user_groups : m.user_id = user_id
                                             /\ Abs(m.group_id) = Abs(group_id)}, r.ok)
    /\ UNCHANGED <<groups, name_changes, scam_names>>

\* db.remove_user_from_group(user_id, group_id)
DbRemoveUserFromGroup(user_id, group_id) ==
    /\ StoreReady
    /\ \E r \in {remove_user_from_group(users, user_groups, user_id, group_id)} :
          /\ users' = r.users
          /\ user_groups' = r.user_groups
          /\ last' = StoreCall("remove_user_from_group", user_id, group_id, "",
                        {m \in user_groups : m.user_id = user_id
                                             /\ m.group_id = group_id}, r.ok)
    /\ UNCHANGED <<groups, name_changes, scam_names>>

StoreNext ==
    \/ \E g \in StoreGroupIds, t \in Titles : DbRegisterGroup(g, t)
    \/ \E u \in StoreUserIds, o \in StoreIdentities : DbRegisterUser(u, o)
    \/ \E u \in StoreUserIds, g \in StoreGroupIds : DbAddUserToGroup(u, g)
    \/ \E u \in StoreUserIds, g \in StoreGroupIds : DbRemoveUserFromGroup(u, g)

StoreSpec == Init /\ [][StoreNext]_vars

\* ------------------------------------------------- the bot on a failing store
\* The bot with a store whose history INSERT may fail: record_name_change
\* catches the sqlite error and returns False, and handle_name_change does not
\* read the return value (main.py 156-165).
FaultIdentities == {User(<<"A">>, None, None), User(<<"A">>, <<"S">>, <<"x">>)}

FaultScamPool == {<<"s">>}

FaultAnswers ==
    LET client == {Answer(FALSE, FALSE, FALSE, FALSE, FALSE, FALSE),
                   Answer(TRUE, TRUE, TRUE, TRUE, TRUE, FALSE),
                   Answer(TRUE, TRUE, TRUE, TRUE, FALSE, FALSE)}
    IN  client \cup {WriteFails(a) : a \in client}

\* events.Raw UpdateUser (main.py 738-741) while the store may fail
FaultNameChange(user_id, user) ==
    /\ Ready
    /\ \E dry \in {handle_name_change(users, groups, user_groups, name_changes, scam_names,
                      user_id, user, [g \in NormalizedIds |-> AnyAnswer])} :
       \E answers \in [{dry.fx.active[i] : i \in 1..Len(dry.fx.active)} -> FaultAnswers] :
       \E r \in {handle_name_change(users, groups, user_groups, name_changes,
                      scam_names, user_id, user, Total(answers))} :
          /\ Len(r.name_changes) <= MaxHistory
          /\ users' = r.users
          /\ name_changes' = r.name_changes
          /\ last' = Signal("name_change", user_id, user, 0, r.fx)
    /\ UNCHANGED <<groups, user_groups, scam_names>>

FaultNext ==
    \/ \E u \in UserIds, o \in FaultIdentities : FaultNameChange(u, o)
    \/ \E c \in RawGroupIds, t \in Titles, u \in UserIds, o \in FaultIdentities :
          UserJoin(c, t, TRUE, u, o)
    \/ \E n \in FaultScamPool : AddScam(n)
    \/ Return

FaultSpec == Init /\ [][FaultNext]_vars

\* ------------------------------------------------------ the periodic re-poll
\* periodic_user_check (main.py 782-792) runs forever beside the join handler
\* and the admin commands: every round it asks Telegram for the profile of
\* each user get_all_users returns.  No profile update is pushed.
PollUserIds == {1, 2}

\* the profile each user has joined with
JoinedAs == User(<<"A">>, None, None)

\* the profile each user shows from then on: GetFullUserRequest returns it
Profile == [u \in PollUserIds |-> User(<<"A">>, <<"S">>, IF u = 1 THEN <<"x">> ELSE <<"y">>)]

PollAnswers ==
    {Answer(FALSE, FALSE, FALSE, FALSE, FALSE, FALSE),
     Answer(TRUE, TRUE, TRUE, TRUE, TRUE, FALSE)}

\* the ids of S in ascending order
RECURSIVE Ascending(_)
Ascending(S) ==
    IF S = {} THEN <<>>
    ELSE LET m == CHOOSE x \in S : \A y \in S : x <= y
         IN <<m>> \o Ascending(S \ {m})

\* Database.get_all_users: the ids of users JOIN user_groups JOIN groups, all
\* three rows with is_active = 1
get_all_users(us, gs, ugs) ==
    Ascending({r.user_id : r \in {x \in us :
        /\ x.is_active
        /\ \E m \in ugs : /\ m.user_id = x.user_id
                          /\ m.is_active
                          /\ \E g \in gs : g.group_id = m.group_id /\ g.is_active}})

\* `for user in users: await self.check_user_changes(user['user_id'])` from
\* the i-th user on.  fetched: the users whose GetFullUserRequest returns; for
\* the others it raises, which check_user_changes catches (main.py 701-702).
\* answers[g]: what the client answers in group g during the round.
RECURSIVE poll_users(_, _, _, _, _, _, _, _, _, _)
poll_users(ids, i, us, gs, ugs, nc, sn, fetched, answers, fxs) ==
    IF i > Len(ids)
    THEN [users |-> us, name_changes |-> nc,
          fx |-> [NoFx EXCEPT !.checked = fxs, !.fetched = fetched]]
    ELSE LET u == ids[i]
             r == IF u \in fetched
                  THEN check_user_changes(us, gs, ugs, nc, sn, u, Profile[u], answers)
                  ELSE [users |-> us, name_changes |-> nc, fx |-> NoFx]
         IN  poll_users(ids, i + 1, r.users, gs, ugs, r.name_changes, sn, fetched, answers,
                        Append(fxs, [user_id |-> u, fx |-> r.fx]))

\* one round of periodic_user_check; last.fx.checked lists the users of the
\* round, each with what its re-check did, and last.fx.fetched the users
\* Telegram answers for in this round
PollRound(fetched, answers) ==
    /\ last = Idle
    /\ \E r \in {poll_users(get_all_users(users, groups, user_groups), 1, users, groups,
                            user_groups, name_changes, scam_names, fetched, answers,
                            <<>>)} :
          /\ users' = r.users
          /\ name_changes' = r.name_changes
          /\ last' = Signal("poll", 0, NoIdentity, 0, r.fx)
    /\ UNCHANGED <<groups, user_groups, scam_names, nsig>>

PollNext ==
    \/ \E fetched \in SUBSET PollUserIds, a \in PollAnswers :
          PollRound(fetched, [g \in NormalizedIds |-> a])
    \/ \E c \in RawGroupIds, t \in Titles, u \in PollUserIds : UserJoin(c, t, TRUE, u, JoinedAs)
    \/ \E n \in FaultScamPool : AddScam(n)
    \/ Return

\* A handler that has started returns.  That the rounds go on for ever
\* (`while True` with a sleep of 60 s) and that Telegram does not fail the
\* request for one user for ever is the hypothesis of the claim about the
\* re-poll, stated there.
PollSpec ==
    /\ Init
    /\ [][PollNext]_vars
    /\ WF_vars(Return)

\* ------------------------------------------ the bot and deleted accounts
\* The bot observing accounts that lose their first name: a user whose first
\* name itself begins with the word Unknown, and the same account once its
\* first name is gone.
PlaceholderIdentities ==
    {User(<<"A">>, None, <<"x">>),
     User(Unknown \o <<" ", "S">>, None, <<"x">>),
     User(None, <<"S">>, <<"x">>),
     User(None, None, <<"x">>)}

PlaceholderNext ==
    \/ \E u \in UserIds, o \in PlaceholderIdentities : NameChange(u, o)
    \/ \E u \in UserIds, o \in PlaceholderIdentities : CheckUserChanges(u, o)
    \/ \E c \in RawGroupIds, t \in Titles, u \in UserIds, o \in PlaceholderIdentities :
          UserJoin(c, t, TRUE, u, o)
    \/ \E n \in ScamPool : AddScam(n)
    \/ Return

PlaceholderSpec == Init /\ [][PlaceholderNext]_vars

\* ------------------------------- the push handler and the re-poll together
\* periodic_user_check is a task of its own (main.py 781-795): sequential
\* updates keep the update handlers one after the other, not the re-poll.
\* The two coroutines interleave where one of them waits for the client:
\* inside the ban of a group (main.py 167-203).  Everything between two such
\* waits runs without interruption.  The store starts as the bot leaves it
\* after user 1 joined as A (@x) and "s" was put on the blocklist.
ConcUser == 1

ConcIdentities ==
    {User(<<"A">>, None, <<"x">>), User(<<"A">>, <<"S">>, <<"x">>), User(<<"S">>, None, <<"x">>)}

\* a coroutine running handle_name_change: where it is (idle, ban: waiting
\* for the client inside the ban of active[i], done), and its locals
NoTask ==
    [pc |-> "idle", user |-> NoIdentity, existing |-> {}, changes |-> <<>>,
     active |-> <<>>, i |-> 0, is_scammer |-> FALSE, actions |-> <<>>]

\* handle_name_change from the top of iteration i of `for group in
\* user_groups` to its next wait or its end (main.py 153-226):
\* [users, name_changes, task, alerts]
RECURSIVE run_loop(_, _, _, _)
run_loop(t, i, us, nc) ==
    LET new == row_of(t.user)
        existing_user == CHOOSE r \in t.existing : TRUE
    IN  IF i > Len(t.active)
        THEN [users |-> register_user(us, ConcUser, new.first_name, new.last_name,
                            new.username),
              name_changes |-> nc,
              task |-> [t EXCEPT !.pc = "done", !.i = i],
              alerts |-> IF t.is_scammer THEN 1 ELSE 0]
        ELSE LET nc1 == record_name_change(nc, ConcUser, t.active[i].group_id,
                            existing_user.first_name, existing_user.last_name,
                            existing_user.username,
                            new.first_name, new.last_name, new.username)
             IN  IF t.is_scammer
                 THEN [users |-> us, name_changes |-> nc1,
                       task |-> [t EXCEPT !.pc = "ban", !.i = i], alerts |-> 0]
                 ELSE run_loop(t, i + 1, us, nc1)

\* handle_name_change from its first line to its first wait or its end
\* (main.py 96-165)
begin_name_change(us, gs, ugs, nc, sn, user) ==
    LET found == get_user(us, ConcUser)
        new == row_of(user)
        t0 == [NoTask EXCEPT !.pc = "done", !.user = user, !.existing = found]
    IN  IF found = {}
        THEN [users |-> register_user(us, ConcUser, new.first_name, new.last_name,
                            new.username),
              name_changes |-> nc, task |-> t0, alerts |-> 0]
        ELSE
        LET existing_user == CHOOSE r \in found : TRUE
            changes == name_changes_of(existing_user, user)
            active == get_user_active_groups(gs, ugs, ConcUser)
            m == match_scam_names(get_scam_names(sn),
                     full_name_of(new.first_name, new.last_name), NoMatch)
        IN  IF changes = <<>> \/ active = <<>>
            THEN [users |-> us, name_changes |-> nc,
                  task |-> [t0 EXCEPT !.changes = changes], alerts |-> 0]
            ELSE run_loop([t0 EXCEPT !.changes = changes, !.active = active,
                                     !.is_scammer = m.is_scammer], 1, us, nc)

\* check_user_changes once GetFullUserRequest has returned `user`
\* (main.py 674-700)
begin_check_user_changes(us, gs, ugs, nc, sn, user) ==
    LET found == get_user(us, ConcUser)
        new == row_of(user)
        t0 == [NoTask EXCEPT !.pc = "done", !.user = user, !.existing = found]
    IN  IF found = {}
        THEN [users |-> register_user(us, ConcUser, new.first_name, new.last_name,
                            new.username),
              name_changes |-> nc, task |-> t0, alerts |-> 0]
        ELSE IF user_changes_of(CHOOSE r \in found : TRUE, user) # <<>>
             THEN begin_name_change(us, gs, ugs, nc, sn, user)
             ELSE [users |-> us, name_changes |-> nc, task |-> t0, alerts |-> 0]

\* the client's answers for the ban of active[i] arrive: the rest of the
\* iteration, then on to the next wait or the end (main.py 167-226)
resume_name_change(t, us, nc, a) ==
    run_loop([t EXCEPT !.actions = Append(@, ban_in_group(t.active[t.i].group_id, a))],
             t.i + 1, us, nc)

\* both coroutines, the identity observed last and the alerts sent so far
Tasks(push, poll, latest, alerts) ==
    [kind |-> "tasks", push |-> push, poll |-> poll, latest |-> latest, alerts |-> alerts]

ConcInit ==
    /\ users = {[user_id |-> ConcUser, first_name |-> <<"A">>, last_name |-> EmptyStr,
                 username |-> <<"x">>, is_active |-> TRUE]}
    /\ groups = {[group_id |-> 1, group_name |-> "g", is_active |-> TRUE],
                 [group_id |-> 2, group_name |-> "h", is_active |-> TRUE]}
    /\ user_groups \in {{[user_id |-> ConcUser, group_id |-> 1, is_active |-> TRUE]},
                        {[user_id |-> ConcUser, group_id |-> g, is_active |-> TRUE] :
                            g \in {1, 2}}}
    /\ name_changes = <<>>
    /\ scam_names = <<<<"s">>>>
    /\ last = Tasks(NoTask, NoTask, NoIdentity, 0)
    /\ nsig = 0

\* events.Raw UpdateUser carrying `user` reaches handle_name_change
\* (main.py 738-741)
PushBegin(user) ==
    /\ last.push.pc = "idle"
    /\ \E r \in {begin_name_change(users, groups, user_groups, name_changes,
                     scam_names, user)} :
          /\ users' = r.users
          /\ name_changes' = r.name_changes
          /\ last' = Tasks(r.task, last.poll, user, last.alerts + r.alerts)
    /\ UNCHANGED <<groups, user_groups, scam_names, nsig>>

\* the re-poll's GetFullUserRequest for the user returns `user`
\* (main.py 786-788, 669-675)
PollBegin(user) ==
    /\ last.poll.pc = "idle"
    /\ \E r \in {begin_check_user_changes(users, groups, user_groups, name_changes,
                     scam_names, user)} :
          /\ users' = r.users
          /\ name_changes' = r.name_changes
          /\ last' = Tasks(last.push, r.task, user, last.alerts + r.alerts)
    /\ UNCHANGED <<groups, user_groups, scam_names, nsig>>

\* the push handler's ban of a group is answered
PushResume(a) ==
    /\ last.push.pc = "ban"
    /\ \E r \in {resume_name_change(last.push, users, name_changes, a)} :
          /\ users' = r.users
          /\ name_changes' = r.name_changes
          /\ last' = Tasks(r.task, last.poll, last.latest, last.alerts + r.alerts)
    /\ UNCHANGED <<groups, user_groups, scam_names, nsig>>

\* the re-poll's ban of a group is answered
PollResume(a) ==
    /\ last.poll.pc = "ban"
    /\ \E r \in {resume_name_change(last.poll, users, name_changes, a)} :
          /\ users' = r.users
          /\ name_changes' = r.name_changes
          /\ last' = Tasks(last.push, r.task, last.latest, last.alerts + r.alerts)
    /\ UNCHANGED <<groups, user_groups, scam_names, nsig>>

ConcNext ==
    \/ \E o \in ConcIdentities : PushBegin(o)
    \/ \E o \in ConcIdentities : PollBegin(o)
    \/ \E a \in ClientAnswers : PushResume(a)
    \/ \E a \in ClientAnswers : PollResume(a)

ConcSpec == ConcInit /\ [][ConcNext]_vars

\* =================================================================== claims
\* the update being handled is a profile update (push signal or re-poll)
ProfileUpdate(s) == s.kind \in {"name_change", "check"}

NoneAsEmpty(x) == IF x = None THEN EmptyStr ELSE x

\* the stored identity equals the observed one, field by field, None read as
\* the empty string and a missing observed first name as "Unknown"
SameFields(S, O) ==
    /\ NoneAsEmpty(S.first_name) = Or(O.first_name, Unknown)
    /\ NoneAsEmpty(S.last_name) = NoneAsEmpty(O.last_name)
    /\ NoneAsEmpty(S.username) = NoneAsEmpty(O.username)

\* the user has at least one membership row with is_active = 1
HasActiveMembership(user_id) ==
    \E m \in user_groups : m.user_id = user_id /\ m.is_active

\* C1: a profile update of an already stored user computes an empty delta
\* exactly when stored and observed identity agree field by field (None as
\* the empty string, a missing first name as "Unknown").
C1_DeltaEmptyIffSameFields ==
    [][(ProfileUpdate(last') /\ get_user(users, last'.user_id) # {}) =>
         LET S == CHOOSE r \in get_user(users, last'.user_id) : TRUE
         IN  (last'.fx.changes = <<>>) <=> SameFields(S, last'.user)]_vars

\* C2: once a profile update of a user with an active membership has been
\* reconciled, re-polling the same observed identity computes an empty delta,
\* writes nothing and issues no call.
C2_SecondReconcileIsEmpty ==
    (/\ ProfileUpdate(last)
     /\ last.fx.known
     /\ (last.fx.changes = <<>> \/ last.fx.evaluated)
     /\ HasActiveMembership(last.user_id))
    => \A answers \in [NormalizedIds -> ClientAnswers] :
          LET r == check_user_changes(users, groups, user_groups, name_changes,
                       scam_names, last.user_id, last.user, answers)
          IN  /\ r.fx.changes = <<>>
              /\ r.fx.calls = <<>>
              /\ r.name_changes = name_changes
              /\ r.users = users

\* b occurs in f as a contiguous run of characters
IsSubstring(b, f) ==
    \E i \in 0..Len(f) : \E j \in i..Len(f) : SubSeq(f, i + 1, j) = b

\* the blocklist entries that, lowercased, are substrings of the lowercased name
Substrings(f) ==
    {scam_names[i] : i \in {k \in 1..Len(scam_names) :
                              IsSubstring(Lower(scam_names[k]), Lower(f))}}

\* C3: on a join and on a profile update alike, the name is flagged exactly
\* when some blocklist entry, lowercased, is a substring of the lowercased
\* full name, and the matched list holds exactly those entries.
C3_FlaggedIffSubstring ==
    last.fx.evaluated =>
        /\ last.fx.is_scammer <=> (Substrings(last.fx.full_name) # {})
        /\ {last.fx.matched[i] : i \in 1..Len(last.fx.matched)}
               = Substrings(last.fx.full_name)
        /\ Len(last.fx.matched) = Cardinality(Substrings(last.fx.full_name))

\* a profile update flagged through a proper, differently cased substring,
\* with another blocklist entry that does not match
C3_Witness ==
    /\ ProfileUpdate(last)
    /\ last.fx.is_scammer
    /\ Len(scam_names) = 2
    /\ Len(last.fx.matched) = 1
    /\ last.fx.matched[1] # last.fx.full_name

\* C4: a profile update whose delta is empty changes no table and issues no
\* ban, kick or alert.
C4_EmptyDeltaIsNoOp ==
    [][(ProfileUpdate(last') /\ last'.fx.known /\ last'.fx.changes = <<>>) =>
         /\ UNCHANGED <<users, groups, user_groups, name_changes>>
         /\ last'.fx.calls = <<>>]_vars

\* an empty delta computed by handle_name_change itself
C4_Witness ==
    /\ last.kind = "name_change"
    /\ last.fx.known
    /\ last.fx.changes = <<>>
    /\ HasActiveMembership(last.user_id)

\* how often a handler issued op (for group_id; 0 for a call that names none)
Count(calls, op, group_id) ==
    Cardinality({i \in 1..Len(calls) : calls[i] = Call(op, group_id)})

\* the groups of the user's membership rows with is_active = 1
ActiveMembershipIds(user_id) ==
    {m.group_id : m \in {x \in user_groups : x.user_id = user_id /\ x.is_active}}

\* row is a history row of user_id with old snapshot S and new snapshot O
Snapshot(row, user_id, S, O) ==
    /\ row.user_id = user_id
    /\ row.old_first_name = S.first_name
    /\ row.old_last_name = S.last_name
    /\ row.old_username = S.username
    /\ row.new_first_name = Or(O.first_name, Unknown)
    /\ row.new_last_name = Or(O.last_name, EmptyStr)
    /\ row.new_username = Or(O.username, EmptyStr)

\* the stored identity of user_id is the observed identity O
StoredIs(us, user_id, O) ==
    \E r \in us :
        /\ r.user_id = user_id
        /\ r.first_name = Or(O.first_name, Unknown)
        /\ r.last_name = Or(O.last_name, EmptyStr)
        /\ r.username = Or(O.username, EmptyStr)

\* C5: a profile update with a non-empty delta of a user with N active
\* memberships appends exactly N history rows, one per active group, each with
\* the stored identity as old and the observed identity as new snapshot.
C5_OneRowPerActiveMembership ==
    [][(ProfileUpdate(last') /\ last'.fx.changes # <<>>) =>
         LET u == last'.user_id
             S == CHOOSE r \in get_user(users, u) : TRUE
             ids == ActiveMembershipIds(u)
             old == Len(name_changes)
             new == Len(name_changes')
         IN  /\ new = old + Cardinality(ids)
             /\ SubSeq(name_changes', 1, old) = name_changes
             /\ {name_changes'[i].group_id : i \in (old + 1)..new} = ids
             /\ \A i \in (old + 1)..new : Snapshot(name_changes'[i], u, S, last'.user)]_vars

\* C6: a flagged profile update sends exactly one alert, after every active
\* group of the user has been processed, however many groups there are.
C6_OneAlertAfterAllGroups ==
    (ProfileUpdate(last) /\ last.fx.is_scammer) =>
        LET calls == last.fx.calls
            active == get_user_active_groups(groups, user_groups, last.user_id)
        IN  /\ Count(calls, "send_message", 0) = 1
            /\ calls[Len(calls)] = Call("send_message", 0)
            /\ \A k \in 1..Len(active) :
                  Count(calls, "record_name_change", active[k].group_id) = 1
            /\ Len(last.fx.actions) = Len(active)

\* a flagged profile update of a user in two groups
C6_Witness ==
    /\ ProfileUpdate(last)
    /\ last.fx.is_scammer
    /\ Len(get_user_active_groups(groups, user_groups, last.user_id)) = 2

\* C7: a profile update with a non-empty delta of a user with at least one
\* active membership writes the stored identity exactly once, and the stored
\* identity is then the observed one.
C7_IdentityWrittenOnce ==
    [][(ProfileUpdate(last') /\ last'.fx.changes # <<>>
          /\ HasActiveMembership(last'.user_id)) =>
         /\ Count(last'.fx.calls, "register_user", 0) = 1
         /\ StoredIs(users', last'.user_id, last'.user)]_vars

\* C8: in a flagged profile update, whatever the ban does in each group, the
\* history row of every active group of the user is written and the stored
\* identity becomes the observed one.
C8_BanNeverBlocksRecording ==
    (ProfileUpdate(last) /\ last.fx.is_scammer) =>
        LET active == get_user_active_groups(groups, user_groups, last.user_id)
            n == Len(active)
            base == Len(name_changes) - n
        IN  /\ base >= 0
            /\ \A k \in 1..n :
                  /\ name_changes[base + k].group_id = active[k].group_id
                  /\ name_changes[base + k].user_id = last.user_id
                  /\ name_changes[base + k].new_first_name = Or(last.user.first_name, Unknown)
                  /\ name_changes[base + k].new_last_name = Or(last.user.last_name, EmptyStr)
                  /\ name_changes[base + k].new_username = Or(last.user.username, EmptyStr)
            /\ StoredIs(users, last.user_id, last.user)
            /\ Count(last.fx.calls, "register_user", 0) = 1

\* ban and kick both fail in the first of two groups
C8_Witness ==
    /\ ProfileUpdate(last)
    /\ Len(last.fx.actions) = 2
    /\ last.fx.actions[1].outcome = "Failed"
    /\ last.fx.actions[1].kick
    /\ last.fx.actions[2].outcome \in {"Banned", "Kicked", "Skipped"}

\* C9: the kick is issued exactly when the ban was issued and failed; a failed
\* ban with a successful kick is Kicked; a successful ban issues no kick.
C9_KickIffBanFailed ==
    \A i \in 1..Len(last.fx.actions) :
        LET mod == last.fx.actions[i]
        IN  /\ mod.kick <=> (mod.ban /\ ~mod.ban_ok)
            /\ (mod.ban /\ ~mod.ban_ok /\ mod.kick_ok) => mod.outcome = "Kicked"
            /\ (mod.ban /\ mod.ban_ok) => (~mod.kick /\ mod.outcome = "Banned")
            /\ Count(last.fx.calls, "kick_participant", mod.group_id)
                   = IF mod.kick THEN 1 ELSE 0
            /\ Count(last.fx.calls, "edit_permissions", mod.group_id)
                   = IF mod.ban THEN 1 ELSE 0

\* a flagged joiner whose ban fails and whose kick succeeds
C9_Witness ==
    /\ last.kind = "join"
    /\ Len(last.fx.actions) = 1
    /\ last.fx.actions[1].ban
    /\ ~last.fx.actions[1].ban_ok
    /\ last.fx.actions[1].outcome = "Kicked"

\* C10: with neither admin status nor ban right the group is Skipped and
\* neither ban nor kick is issued; with at least one of the two the ban is
\* attempted.
C10_SkippedIffNoRights ==
    \A i \in 1..Len(last.fx.actions) :
        LET mod == last.fx.actions[i]
        IN  mod.looked_up =>
              /\ (~mod.is_admin /\ ~mod.ban_users) =>
                    /\ mod.outcome = "Skipped"
                    /\ Count(last.fx.calls, "edit_permissions", mod.group_id) = 0
                    /\ Count(last.fx.calls, "kick_participant", mod.group_id) = 0
              /\ (mod.is_admin \/ mod.ban_users) =>
                    /\ mod.outcome # "Skipped"
                    /\ Count(last.fx.calls, "edit_permissions", mod.group_id) = 1

\* a profile update skipped in one group for missing rights and banned, with
\* the ban right alone, in the other
C10_Witness ==
    /\ ProfileUpdate(last)
    /\ \E i, j \in 1..Len(last.fx.actions) :
          /\ last.fx.actions[i].outcome = "Skipped"
          /\ last.fx.actions[j].ban
          /\ ~last.fx.actions[j].is_admin

C12_FlaggedJoinWritesNothing ==
    [][last'.kind = "join" =>
         LET calls == last'.fx.calls
             wrote == \/ Count(calls, "register_user", 0) > 0
                      \/ Count(calls, "add_user_to_group", last'.group_id) > 0
                      \/ users' # users
                      \/ user_groups' # user_groups
         IN  /\ wrote => (last'.fx.evaluated /\ ~last'.fx.is_scammer)
             /\ last'.fx.is_scammer =>
                   /\ ~wrote
                   /\ Len(last'.fx.actions) = 1
                   /\ last'.fx.actions[1].outcome \in
                         {"Banned", "Kicked", "Skipped", "Failed"}]_vars

\* a flagged joiner not yet in the store whose ban and kick both raise
C12_Witness ==
    /\ last.kind = "join"
    /\ last.fx.is_scammer
    /\ last.fx.actions[1].outcome = "Failed"
    /\ last.fx.actions[1].kick
    /\ get_user(users, last.user_id) = {}

\* C13: after the join of a user whose name is not flagged, the store holds
\* the user's row with the observed identity and is_active = 1, and exactly
\* one membership row for (user, normalized group), with is_active = 1.
C13_CleanJoinRegisters ==
    (last.kind = "join" /\ last.fx.evaluated /\ ~last.fx.is_scammer) =>
        LET rows == {m \in user_groups : m.user_id = last.user_id
                                         /\ Abs(m.group_id) = last.group_id}
        IN  /\ StoredIs(users, last.user_id, last.user)
            /\ \A r \in get_user(users, last.user_id) : r.is_active
            /\ Cardinality(get_user(users, last.user_id)) = 1
            /\ Cardinality(rows) = 1
            /\ \A m \in rows : m.is_active /\ m.group_id = last.group_id

\* a user already stored under another identity joins with a clean name
C13_Witness ==
    /\ last.kind = "join"
    /\ last.fx.evaluated
    /\ ~last.fx.is_scammer
    /\ last.fx.known
    /\ scam_names # <<>>
    /\ last.user.first_name = None

\* C14: when a leave signal for a user u with an active membership in group g
\* has been handled, the membership (u, g) is inactive, and if u then has no
\* active membership the user's row is inactive.
C14_LeaveDeactivates ==
    [][(last'.kind = "leave" /\ last'.fx.called
          /\ \E m \in user_groups : /\ m.user_id = last'.user_id
                                    /\ Abs(m.group_id) = last'.group_id
                                    /\ m.is_active) =>
         LET u == last'.user_id
             g == last'.group_id
         IN  /\ \A m \in user_groups' :
                   (m.user_id = u /\ Abs(m.group_id) = g) => ~m.is_active
             /\ (~\E m \in user_groups' : m.user_id = u /\ m.is_active) =>
                   \A r \in get_user(users', u) : ~r.is_active]_vars

\* the names of the groups other than group_id in which user_id has an active
\* membership
OtherActiveGroupNames(user_id, group_id) ==
    {g.group_name : g \in {x \in groups :
        /\ x.group_id # group_id
        /\ \E m \in user_groups : /\ m.user_id = user_id
                                  /\ m.group_id = x.group_id
                                  /\ m.is_active}}

\* C15: the "user left" notification for a leave of u from g lists exactly
\* the names of the groups other than g in which u has an active membership,
\* each once, and carries the "not in any other groups" marker exactly when
\* there is none.
C15_LeftNoticeListsOtherGroups ==
    (last.kind = "leave" /\ last.fx.called) =>
        LET names == OtherActiveGroupNames(last.user_id, last.group_id)
            notice == last.fx.notice
        IN  /\ Count(last.fx.calls, "send_message", 0) = 1
            /\ (notice = <<"Not in any other groups">>) <=> (names = {})
            /\ names # {} =>
                  /\ notice[1] = "Still in groups:"
                  /\ Len(notice) = 1 + Cardinality(names)
                  /\ {notice[i] : i \in 2..Len(notice)} = names
            /\ \A i \in 1..Len(notice) : notice[i] = "Not in any other groups" => names = {}

\* a user with active memberships in two groups leaves one of them
C15_Witness ==
    /\ last.kind = "leave"
    /\ last.fx.called
    /\ Len(last.fx.notice) = 2
    /\ \E m \in user_groups : /\ m.user_id = last.user_id
                              /\ m.group_id = last.group_id
                              /\ m.is_active
    /\ \E g \in groups : g.group_id = last.group_id

\* C16: in every reachable state of the store a user row has is_active = 0
\* if and only if the user has no active membership row.
C16_InactiveIffNoMembership ==
    \A r \in users : (~r.is_active) <=> ~HasActiveMembership(r.user_id)

\* |n|, written out
Magnitude(n) == IF n < 0 THEN 0 - n ELSE n

\* the membership rows of user_id in the group with normalized id |group_id|
MembershipRows(ugs, user_id, group_id) ==
    {m \in ugs : m.user_id = user_id /\ Magnitude(m.group_id) = Magnitude(group_id)}

\* C17: there is at most one membership row per (user_id, normalized
\* group_id), and after add_user_to_group, also for a user who had left the
\* group, that single row has is_active = 1.
C17_OneMembershipRowPerPair ==
    /\ \A u \in StoreUserIds, g \in StoreGroupIds :
          Cardinality(MembershipRows(user_groups, u, g)) <= 1
    /\ last.kind = "add_user_to_group" =>
          /\ last.ok
          /\ Cardinality(MembershipRows(user_groups, last.user_id, last.group_id)) = 1
          /\ \A m \in MembershipRows(user_groups, last.user_id, last.group_id) :
                m.is_active /\ m.group_id = Magnitude(last.group_id)

\* a user whose membership row was inactive has been added to the group again
C17_Witness ==
    /\ last.kind = "add_user_to_group"
    /\ \E m \in last.existing : ~m.is_active
    /\ \A m \in MembershipRows(user_groups, last.user_id, last.group_id) : m.is_active

\* gs holds exactly one row for the group with id g or -g, keyed by |g|
KeyedOnce(gs, g) ==
    /\ Cardinality({r \in gs : Magnitude(r.group_id) = Magnitude(g)}) = 1
    /\ \A r \in gs : Magnitude(r.group_id) = Magnitude(g) => r.group_id = Magnitude(g)

\* C18: register_group(g, n) and register_group(-g, n), in either order and
\* repeated, leave exactly one group row for that group, keyed by |g|: the
\* second and later calls change nothing and both signs give the same store.
C18_SignedIdsOneRow ==
    /\ \A g \in StoreGroupIds, n \in Titles :
          LET a == register_group(groups, g, n)
              b == register_group(a.groups, 0 - g, n)
              c == register_group(b.groups, g, n)
          IN  /\ KeyedOnce(a.groups, g)
              /\ b.groups = a.groups
              /\ c.groups = a.groups
              /\ register_group(groups, 0 - g, n) = a
    /\ last.kind = "register_group" => KeyedOnce(groups, last.group_id)

\* a group stored under its positive id has been registered again, with the
\* same name, under the negative id
C18_Witness ==
    /\ last.kind = "register_group"
    /\ last.group_id < 0
    /\ last.ok
    /\ last.existing # {}
    /\ \A e \in last.existing : e.group_id = Magnitude(last.group_id)
    /\ Cardinality(groups) = 2

\* C19: every store operation that takes a group id reads and writes the same
\* rows and returns the same result when called with g and with -g.
C19_GroupIdsNormalized ==
    \A g \in StoreGroupIds :
        /\ \A n \in Titles : register_group(groups, g, n) = register_group(groups, 0 - g, n)
        /\ get_group(groups, g) = get_group(groups, 0 - g)
        /\ get_group_user_count(users, user_groups, g)
              = get_group_user_count(users, user_groups, 0 - g)
        /\ \A u \in StoreUserIds :
              /\ add_user_to_group(users, user_groups, u, g)
                    = add_user_to_group(users, user_groups, u, 0 - g)
              /\ remove_user_from_group(users, user_groups, u, g)
                    = remove_user_from_group(users, user_groups, u, 0 - g)
              /\ record_name_change(name_changes, u, g, EmptyStr, EmptyStr, EmptyStr,
                                    EmptyStr, EmptyStr, EmptyStr)
                    = record_name_change(name_changes, u, 0 - g, EmptyStr, EmptyStr,
                                         EmptyStr, EmptyStr, EmptyStr, EmptyStr)

\* C20: register_group(g, n) on a store that holds an active group named n
\* under another normalized id treats it as the same group: afterwards exactly
\* one row has that name, its id is |g|, and no row was added.
C20_NameBasedReconciliation ==
    [][(last'.kind = "register_group"
          /\ \E e \in groups : /\ e.group_name = last'.group_name
                               /\ e.is_active
                               /\ Magnitude(e.group_id) # Magnitude(last'.group_id)) =>
         /\ Cardinality({r \in groups' : r.group_name = last'.group_name}) = 1
         /\ \A r \in groups' :
               r.group_name = last'.group_name => r.group_id = Magnitude(last'.group_id)
         /\ Cardinality(groups') = Cardinality(groups)]_vars

\* C21: the history is append-only: every step of every handler leaves the
\* rows written so far in place and unchanged, as a prefix of the history.
C21_HistoryAppendOnly ==
    [][/\ Len(name_changes') >= Len(name_changes)
       /\ SubSeq(name_changes', 1, Len(name_changes)) = name_changes]_vars

\* a second profile update of the same user in the same group has been
\* recorded after an earlier one
C21_Witness ==
    /\ ProfileUpdate(last)
    /\ Len(name_changes) >= 2
    /\ \E i, j \in 1..Len(name_changes) :
          /\ i < j
          /\ name_changes[i].user_id = name_changes[j].user_id
          /\ name_changes[i].group_id = name_changes[j].group_id
          /\ name_changes[i].new_first_name # name_changes[j].new_first_name

\* C22: a user row is never physically deleted: every store call keeps the
\* row of every stored user, and a removal that leaves the user without an
\* active membership changes nothing in the row but is_active, set to FALSE.
C22_UserRowNeverDeleted ==
    [][/\ {r.user_id : r \in users} \subseteq {r.user_id : r \in users'}
       /\ (/\ last'.kind = "remove_user_from_group"
           /\ ~ \E m \in user_groups' : m.user_id = last'.user_id /\ m.is_active)
          => \A r \in users :
                r.user_id = last'.user_id
                   => [r EXCEPT !.is_active = FALSE] \in users']_vars

\* the user's last active membership has just been removed and the row is
\* still stored, inactive
C22_Witness ==
    /\ last.kind = "remove_user_from_group"
    /\ \E m \in last.existing : m.is_active
    /\ ~ \E m \in user_groups : m.user_id = last.user_id /\ m.is_active
    /\ \E r \in users : r.user_id = last.user_id /\ ~r.is_active

\* the position of the first call of op for group_id in calls, 0 if none
IndexOf(calls, op, group_id) ==
    IF Count(calls, op, group_id) = 0 THEN 0
    ELSE CHOOSE i \in 1..Len(calls) :
            /\ calls[i] = Call(op, group_id)
            /\ \A j \in 1..(i - 1) : calls[j] # Call(op, group_id)

\* C23: in the per-group loop of a flagged profile update, a group whose
\* processing fails (entity or permission lookup raising, or ban and kick both
\* raising) does not end the loop: every later active group still gets its
\* history row, after the failed group's, and its own moderation attempt.
C23_FailedGroupDoesNotEndLoop ==
    (ProfileUpdate(last) /\ last.fx.is_scammer) =>
        LET active == get_user_active_groups(groups, user_groups, last.user_id)
            calls == last.fx.calls
            actions == last.fx.actions
        IN  \A j \in 1..Len(actions) :
               actions[j].outcome = "Failed" =>
                  \A k \in (j + 1)..Len(active) :
                     /\ k <= Len(actions)
                     /\ actions[k].group_id = active[k].group_id
                     /\ actions[k] \in {ban_in_group(active[k].group_id, a) : a \in ClientAnswers}
                     /\ IndexOf(calls, "record_name_change", active[k].group_id)
                           > IndexOf(calls, "record_name_change", active[j].group_id)
                     /\ \E i \in 1..Len(name_changes) :
                           /\ name_changes[i].group_id = active[k].group_id
                           /\ Snapshot(name_changes[i], last.user_id,
                                       [first_name |-> name_changes[i].old_first_name,
                                        last_name |-> name_changes[i].old_last_name,
                                        username |-> name_changes[i].old_username],
                                       last.user)

\* the lookup raises in the first of two groups and the ban is issued in the
\* second
C23_Witness ==
    /\ ProfileUpdate(last)
    /\ last.fx.is_scammer
    /\ Len(last.fx.actions) = 2
    /\ last.fx.actions[1].outcome = "Failed"
    /\ ~last.fx.actions[1].looked_up
    /\ last.fx.actions[2].ban

\* the rows a step appended to the history
Appended == SubSeq(name_changes', Len(name_changes) + 1, Len(name_changes'))

\* C24: in a flagged profile update the history write and the moderation of a
\* group are independent: the moderation of every active group is attempted
\* whether or not its history row could be written, and the history row of
\* every group whose write went through is there, and the stored identity is
\* the observed one, whatever the moderation did.
C24_WriteAndModerationIndependent ==
    [][(ProfileUpdate(last') /\ last'.fx.is_scammer) =>
         LET fx == last'.fx
             written == SelectSeq(fx.active,
                            LAMBDA g : \A i \in 1..Len(fx.unwritten) : fx.unwritten[i] # g)
         IN  /\ Len(name_changes') >= Len(name_changes)
             /\ Len(fx.actions) = Len(fx.active)
             /\ \A k \in 1..Len(fx.active) :
                   /\ fx.actions[k].group_id = fx.active[k]
                   /\ fx.actions[k] \in {ban_in_group(fx.active[k], a) : a \in FaultAnswers}
             /\ [i \in 1..Len(Appended) |-> Appended[i].group_id] = written
             /\ \A i \in 1..Len(Appended) :
                   Snapshot(Appended[i], last'.user_id,
                            CHOOSE r \in get_user(users, last'.user_id) : TRUE, last'.user)
             /\ StoredIs(users', last'.user_id, last'.user)]_vars

\* a flagged update in which one group's history write failed and its ban
\* went through, and another group's row was written while both its ban and
\* its kick failed
C24_Witness ==
    /\ ProfileUpdate(last)
    /\ last.fx.is_scammer
    /\ Len(last.fx.active) = 2
    /\ Len(last.fx.unwritten) = 1
    /\ \E k \in 1..2 :
          /\ last.fx.active[k] = last.fx.unwritten[1]
          /\ last.fx.actions[k].outcome = "Banned"
          /\ last.fx.actions[3 - k].outcome = "Failed"
          /\ last.fx.actions[3 - k].kick
          /\ name_changes[Len(name_changes)].group_id = last.fx.active[3 - k]

\* C25: whenever the matcher flags the observed name, on a join as on a
\* profile update, an alert is sent to the admin, also when the moderation is
\* skipped or fails.
C25_FlaggedAlwaysAlerts ==
    (last.kind \in {"join", "name_change", "check"} /\ last.fx.is_scammer)
        => Count(last.fx.calls, "send_message", 0) >= 1

\* the full name of an observed identity, a missing first name read as
\* "Unknown"
ObservedName(O) == full_name_of(Or(O.first_name, Unknown), Or(O.last_name, EmptyStr))

\* the signal is one that observes a name: a join or a profile update
ObservesName(s) == s.kind \in {"join", "name_change", "check"}

\* C26: a join or profile update whose observed name matches no blocklist
\* entry sends no alert and issues no ban and no kick.
C26_UnflaggedNeverActedOn ==
    (ObservesName(last) /\ Substrings(ObservedName(last.user)) = {}) =>
        /\ last.fx.actions = <<>>
        /\ \A i \in 1..Len(last.fx.calls) :
              last.fx.calls[i].op \notin {"send_message", "edit_permissions",
                                          "kick_participant"}

\* a changed, unflagged name of a group member evaluated against a non-empty
\* blocklist
C26_Witness ==
    /\ ProfileUpdate(last)
    /\ last.fx.evaluated
    /\ scam_names # <<>>
    /\ Substrings(ObservedName(last.user)) = {}
    /\ Count(last.fx.calls, "register_user", 0) = 1

\* the entries of a blocklist
Entries(sn) == {sn[i] : i \in 1..Len(sn)}

\* a missing first name read as "Unknown", the observed identities whose
\* full name holds the blocklist entry n
Holding(n) == {O \in Identities : IsSubstring(Lower(n), Lower(ObservedName(O)))}

\* what the handlers compute from the store (us, gs, ugs, nc, sn) for every
\* join and profile update of an identity holding n
NextEvaluations(us, gs, ugs, nc, sn, n) ==
    {r.fx : r \in
        {handle_user_join(us, gs, ugs, sn, c, t, TRUE, u, O, AnyAnswer) :
            c \in RawGroupIds, t \in Titles, u \in UserIds, O \in Holding(n)}
        \cup {handle_name_change(us, gs, ugs, nc, sn, u, O, [g \in NormalizedIds |-> AnyAnswer]) :
            u \in UserIds, O \in Holding(n)}
        \cup {check_user_changes(us, gs, ugs, nc, sn, u, O, [g \in NormalizedIds |-> AnyAnswer]) :
            u \in UserIds, O \in Holding(n)}}

\* C27: the blocklist is read fresh for every signal.  Right after /addscam
\* the added name is matched by whatever signal of an identity holding it is
\* evaluated next; right after /removescam the removed name is matched by no
\* such signal; the list changes only by
\* these commands; and an evaluation matches only entries that are stored
\* when its signal is handled.
C27_BlocklistReadFresh ==
    [][/\ last'.kind = "addscam" =>
             LET n == last'.fx.notice[2]
             IN  /\ n \in Entries(scam_names')
                 /\ \A fx \in NextEvaluations(users', groups', user_groups',
                                              name_changes', scam_names', n) :
                       (fx.evaluated /\ IsSubstring(Lower(n), Lower(fx.full_name)))
                          => (fx.is_scammer /\ n \in Entries(fx.matched))
       /\ last'.kind = "removescam" =>
             LET n == last'.fx.notice[2]
             IN  /\ n \notin Entries(scam_names')
                 /\ \A fx \in NextEvaluations(users', groups', user_groups',
                                              name_changes', scam_names', n) :
                       n \notin Entries(fx.matched)
       /\ \A n \in ScamPool :
             (n \in Entries(scam_names)) # (n \in Entries(scam_names'))
                => /\ last'.kind = (IF n \in Entries(scam_names') THEN "addscam"
                                    ELSE "removescam")
                   /\ last'.fx.notice[2] = n
       /\ ObservesName(last') => Entries(last'.fx.matched) \subseteq Entries(scam_names)]_vars

\* the first signal after the first /addscam is a join whose name the added
\* entry flags
C27_Witness ==
    /\ nsig = 2
    /\ last.kind = "join"
    /\ last.fx.is_scammer
    /\ Len(scam_names) = 1
    /\ last.fx.matched = scam_names

\* the user row is active and the user has a membership row with is_active = 1
Tracked(user_id) ==
    /\ \E r \in users : r.user_id = user_id /\ r.is_active
    /\ HasActiveMembership(user_id)

\* a round has re-checked user_id, found the profile flagged, recorded the
\* change, attempted the ban, stored the profile and alerted the admin
Reconciled(user_id) ==
    /\ last.kind = "poll"
    /\ \E i \in 1..Len(last.fx.checked) :
          /\ last.fx.checked[i].user_id = user_id
          /\ last.fx.checked[i].fx.is_scammer
          /\ last.fx.checked[i].fx.actions # <<>>
          /\ Count(last.fx.checked[i].fx.calls, "send_message", 0) = 1
    /\ StoredIs(users, user_id, Profile[user_id])
    /\ \E i \in 1..Len(name_changes) :
          /\ name_changes[i].user_id = user_id
          /\ name_changes[i].new_last_name = Profile[user_id].last_name

\* a round is under way in which Telegram answers the request for user_id
PollReaches(user_id) == last.kind = "poll" /\ user_id \in last.fx.fetched

\* C28: with the periodic re-poll scheduled fairly (rounds never stop and
\* Telegram answers for the user again and again) and no push signal, a
\* tracked user with an active membership whose profile has changed to a
\* flagged name is eventually re-checked, recorded, acted on and alerted.
C28_PollEventuallyReconciles ==
    \A u \in PollUserIds :
        ([]<>PollReaches(u)) =>
            ((/\ Tracked(u)
              /\ Substrings(ObservedName(Profile[u])) # {}
              /\ ~StoredIs(users, u, Profile[u]))
             ~> Reconciled(u))

\* the positions in calls of the calls of op for group_id
Positions(calls, op, group_id) == {i \in 1..Len(calls) : calls[i] = Call(op, group_id)}

\* C29: within one reconciliation, for each group the history row is written
\* before that group's ban or kick is issued; the stored identity is written
\* only after every group has been processed; and the alert is sent only
\* after the identity has been written.
C29_RecordModerateStoreAlert ==
    (ProfileUpdate(last) /\ last.fx.evaluated) =>
        LET calls == last.fx.calls
            stored == Positions(calls, "register_user", 0)
            perGroup == {i \in 1..Len(calls) :
                            calls[i].op \in {"record_name_change", "edit_permissions",
                                             "kick_participant"}}
        IN  /\ \A k \in 1..Len(last.fx.active) :
                  LET g == last.fx.active[k]
                  IN  /\ Positions(calls, "record_name_change", g) # {}
                      /\ \A i \in Positions(calls, "record_name_change", g),
                            j \in Positions(calls, "edit_permissions", g)
                                     \cup Positions(calls, "kick_participant", g) : i < j
            /\ stored # {}
            /\ \A i \in perGroup, j \in stored : i < j
            /\ \A i \in stored, j \in Positions(calls, "send_message", 0) : i < j

\* a flagged update of a user in two groups with a ban issued in both
C29_Witness ==
    /\ ProfileUpdate(last)
    /\ last.fx.is_scammer
    /\ Len(last.fx.actions) = 2
    /\ last.fx.actions[1].ban
    /\ last.fx.actions[2].ban
    /\ Count(last.fx.calls, "send_message", 0) = 1

\* C30: the blocklist is evaluated on the observed identity alone.  An
\* evaluated profile update is flagged exactly when the observed full name
\* holds a blocklist entry, whatever the stored name holds; and a username
\* that differs from the stored one makes the handler evaluate the observed
\* full name even when that name is the stored one.
C30_ObservedIdentityOnly ==
    [][ProfileUpdate(last') =>
         LET u == last'.user_id
             O == last'.user
             fx == last'.fx
         IN  /\ fx.evaluated =>
                   /\ fx.full_name = ObservedName(O)
                   /\ fx.is_scammer <=> (Substrings(ObservedName(O)) # {})
             /\ \A S \in get_user(users, u) :
                   (/\ NoneAsEmpty(S.username) # NoneAsEmpty(O.username)
                    /\ get_user_active_groups(groups, user_groups, u) # <<>>)
                   => fx.evaluated]_vars

\* the stored name holds a blocklist entry, the observed one does not, and
\* the update is evaluated and not flagged
C30_Witness ==
    /\ ProfileUpdate(last)
    /\ last.fx.evaluated
    /\ ~last.fx.is_scammer
    /\ name_changes # <<>>
    /\ LET row == name_changes[Len(name_changes)]
       IN  /\ row.user_id = last.user_id
           /\ row.new_first_name = Or(last.user.first_name, Unknown)
           /\ Substrings(full_name_of(row.old_first_name, row.old_last_name)) # {}

\* C31: a profile update that observes no first name uses "Unknown" as the
\* observed first name: against a stored first name other than "Unknown" the
\* delta is not empty, and when the update is reconciled "Unknown" is the new
\* first name of the rows written and of the stored identity and begins the
\* name that is evaluated.
C31_MissingFirstNameIsUnknown ==
    [][(ProfileUpdate(last') /\ last'.user.first_name = None) =>
         LET u == last'.user_id
             fx == last'.fx
         IN  /\ \A S \in get_user(users, u) :
                   S.first_name # Unknown => fx.changes # <<>>
             /\ fx.evaluated =>
                   /\ fx.full_name = full_name_of(Unknown, Or(last'.user.last_name, EmptyStr))
                   /\ \A i \in 1..Len(Appended) : Appended[i].new_first_name = Unknown
                   /\ \E r \in users' : r.user_id = u /\ r.first_name = Unknown]_vars

\* C32: after a profile update with a non-empty delta of a stored user, with
\* or without active memberships, the stored identity is the observed one.
C32_DiffAlwaysStored ==
    [][(ProfileUpdate(last') /\ last'.fx.known /\ last'.fx.changes # <<>>) =>
         StoredIs(users', last'.user_id, last'.user)]_vars

\* the rows of the groups table whose id the step rewrites: the row with that
\* name is still there, under another id
Migrated ==
    {g \in groups : /\ g.is_active
                    /\ \A h \in groups' : h.group_id # g.group_id
                    /\ \E h \in groups' : h.group_name = g.group_name}

\* C35: when register_group moves a stored group to another id because the
\* name is the same, every user with an active membership in that group still
\* has the group in get_user_active_groups and is still in get_all_users.
C35_MigrationKeepsMemberships ==
    [][last'.kind = "join" =>
         \A g \in Migrated : \A m \in user_groups :
            (m.group_id = g.group_id /\ m.is_active) =>
               LET active == get_user_active_groups(groups', user_groups', m.user_id)
                   all == get_all_users(users', groups', user_groups')
               IN  /\ \E k \in 1..Len(active) : active[k].group_name = g.group_name
                   /\ \E k \in 1..Len(all) : all[k] = m.user_id]_vars

\* C36: whenever a handler changes the stored identity of a user who has
\* active memberships from S to another identity O, it appends for each
\* active group of the user a history row with old snapshot S and new
\* snapshot O.
C36_EveryIdentityChangeRecorded ==
    [][\A S \in users : \A O \in users' :
          (/\ O.user_id = S.user_id
           /\ <<O.first_name, O.last_name, O.username>> # <<S.first_name, S.last_name, S.username>>
           /\ ActiveMembershipIds(S.user_id) # {}) =>
             \A g \in ActiveMembershipIds(S.user_id) :
                \E i \in 1..Len(Appended) :
                   /\ Appended[i].group_id = g
                   /\ Appended[i].user_id = S.user_id
                   /\ <<Appended[i].old_first_name, Appended[i].old_last_name, Appended[i].old_username>>
                        = <<S.first_name, S.last_name, S.username>>
                   /\ <<Appended[i].new_first_name, Appended[i].new_last_name, Appended[i].new_username>>
                        = <<O.first_name, O.last_name, O.username>>]_vars

\* C37: a joiner admitted as clean is stored under an identity whose full
\* name the blocklist, as it is at the join, does not flag.
C37_AdmittedIsStoredClean ==
    (last.kind = "join" /\ last.fx.evaluated /\ ~last.fx.is_scammer) =>
        \A r \in get_user(users, last.user_id) :
           ~match_scam_names(get_scam_names(scam_names),
                             full_name_of(r.first_name, r.last_name), NoMatch).is_scammer

\* C38: whatever register_group calls were made, no two rows of the groups
\* table have the same normalized id and no two active rows have the same
\* name.
C38_GroupIdsAndNamesUnique ==
    \A a \in groups, b \in groups :
        a # b => /\ Abs(a.group_id) # Abs(b.group_id)
                 /\ (a.is_active /\ b.is_active) => a.group_name # b.group_name

\* two groups are stored and the last call asked for the name of one under
\* the id of the other
C38_Witness ==
    /\ last.kind = "register_group"
    /\ Cardinality(groups) = 2
    /\ \E a \in groups, b \in groups :
          /\ a # b
          /\ a.group_name = last.group_name
          /\ Abs(b.group_id) = Abs(last.group_id)

\* C39: a join whose register_group call fails leaves the groups table as it
\* was and ends there: no users or user_groups row is written, nobody is
\* banned or kicked and no alert is sent.
C39_FailedRegistrationEndsJoin ==
    [][(last'.kind = "join" /\ ~last'.fx.registered) =>
         /\ groups' = groups
         /\ users' = users
         /\ user_groups' = user_groups
         /\ last'.fx.calls = <<>>
         /\ last'.fx.actions = <<>>
         /\ ~last'.fx.evaluated]_vars

\* a user joined a chat whose title is stored under another id while the
\* chat's own id is stored under another title
C39_Witness ==
    /\ last.kind = "join"
    /\ ~last.fx.registered
    /\ last.user_id \in UserIds
    /\ \E a \in groups, b \in groups : a # b /\ b.group_id = last.group_id

\* the history rows of the user in group g
RowsIn(g) == SelectSeq(name_changes, LAMBDA r : r.user_id = ConcUser /\ r.group_id = g)

\* C33: when the push handler and the re-poll both reconcile one and the same
\* name change, wherever they interleave, there is exactly one history row
\* per active group of the user and, the name being flagged, exactly one
\* alert.
C33_OneReconciliationPerChange ==
    (/\ last.push.pc = "done" /\ last.poll.pc = "done"
     /\ last.push.user = last.poll.user
     /\ name_changes # <<>>) =>
        /\ \A g \in ActiveMembershipIds(ConcUser) : Len(RowsIn(g)) = 1
        /\ (last.push.is_scammer \/ last.poll.is_scammer) => last.alerts = 1

\* C34: when two reconciliations of one user interleave, the stored identity
\* after both have completed is the identity observed last.
C34_NoLostIdentityUpdate ==
    (last.push.pc = "done" /\ last.poll.pc = "done") =>
        StoredIs(users, ConcUser, last.latest)

====
